---- MODULE Spec2Model ----
(***************************************************************************)
(* EduFlow-Automator: the raster compositor of src/src/processors/         *)
(* image_editor.py (typography fitting, background resolution, layers,     *)
(* output encoding, carousel) with its photo-search collaborator           *)
(* src/src/generators/pexels_client.py, and the content history of         *)
(* src/database/repository.py.                                             *)
(*                                                                         *)
(* The specifications sharing the module:                                  *)
(*   SpecTypo     _wrap_text and _fit_font applied to bounded inputs       *)
(*   SpecPixels   _gradient_rgba applied to bounded inputs                 *)
(*   Spec         create_post over a file system                           *)
(*   SpecCarousel one call of create_carousel, slide by slide              *)
(*   SpecPexels   get_background_for_query, attempt by attempt             *)
(*   SpecCopy     create_post with every kind of copy and output path      *)
(*   SpecTwice    create_post called twice with the same arguments         *)
(*   SpecDb       ContentRepository used by two clients                    *)
(*   SpecPar      two create_post calls in parallel                        *)
(*   SpecStack    the text blocks of both variants, title by title         *)
(*   SpecFonts    _find_font_file over the font files installed            *)
(*   SpecSearch   _fit_font against a binary search over its sizes         *)
(*   SpecDownload _download_file, chunk by chunk                           *)
(***************************************************************************)
EXTENDS Integers, Sequences, FiniteSets, TLC

VARIABLES
    typo,       \* one call of the typography helpers: its arguments and result
    pix,        \* one call of the pixel helpers: its arguments and result
    cfg,        \* what a run keeps fixed: installed assets, settings, layout
    pool,       \* the files of settings.BACKGROUNDS_DIR
    out,        \* the output files written so far
    clock,      \* datetime.now(), in whole seconds
    last,       \* the most recent create_post call: arguments, stages, result
    car,        \* the create_carousel call in progress or last finished
    pex,        \* the get_background_for_query call in progress: attempts, waits, result
    db,         \* the content_history table and the repository calls of each client
    par         \* two create_post calls running in parallel, step by step

vars == <<typo, pix, cfg, pool, out, clock, last, car, pex, db, par>>

None == "None"

(***************************************************************************)
(* Bounds of the model                                                     *)
(***************************************************************************)
MaxTextLen == 5      \* characters of a text
MaxSize == 4         \* largest font size passed as start_size / min_size
MaxWidth == 6        \* largest max_width, in pixels
MaxLinesCeil == 2    \* largest max_lines
MaxGradH == 5        \* largest gradient height, in rows
MaxGradW == 2        \* largest gradient width, in pixels
MaxSrcSide == 3      \* small source images have sides 1..MaxSrcSide
MaxClock == 1        \* the clock runs from 0 to MaxClock seconds
MaxSlides == 3       \* most slides of a carousel
MaxWords == 4        \* most words of a stacked title
MaxWordLen == 5      \* most glyphs of a word of a stacked title
MaxSearchSize == 9   \* largest start_size of the size search
MaxSearchWidth == 12 \* largest max_width of the size search, in pixels
MaxChunks == 2       \* most chunks of a downloaded body

(***************************************************************************)
(* Typography: text, fonts, measuring                                      *)
(***************************************************************************)
\* A text is a sequence of characters; " " stands for any whitespace, "W" for
\* any other glyph.
Chars == {"W", " "}

Texts == UNION {[1..n -> Chars] : n \in 0..MaxTextLen}

IsSpace(c) == c = " "

\* str.strip(): leading and trailing whitespace removed.
RECURSIVE LStrip(_)
LStrip(s) ==
    IF s = <<>> THEN <<>>
    ELSE IF IsSpace(Head(s)) THEN LStrip(Tail(s)) ELSE s

RECURSIVE RStrip(_)
RStrip(s) ==
    IF s = <<>> THEN <<>>
    ELSE IF IsSpace(s[Len(s)]) THEN RStrip(SubSeq(s, 1, Len(s) - 1)) ELSE s

Strip(s) == RStrip(LStrip(s))

\* str.split(): the maximal runs of non-whitespace characters, in order.
RECURSIVE SplitFrom(_, _, _)
SplitFrom(s, cur, acc) ==
    IF s = <<>> THEN (IF cur = <<>> THEN acc ELSE Append(acc, cur))
    ELSE IF IsSpace(Head(s))
         THEN SplitFrom(Tail(s), <<>>, IF cur = <<>> THEN acc ELSE Append(acc, cur))
         ELSE SplitFrom(Tail(s), Append(cur, Head(s)), acc)

Split(s) == SplitFrom(s, <<>>, <<>>)

\* " ".join(lines)
RECURSIVE Join(_)
Join(ls) ==
    IF ls = <<>> THEN <<>>
    ELSE IF Len(ls) = 1 THEN ls[1]
    ELSE ls[1] \o <<" ">> \o Join(Tail(ls))

\* _load_font: the TrueType font of the file at the requested size, or
\* ImageFont.load_default() when the file is absent or unreadable.  The
\* built-in font has one fixed size, whatever size was requested.
load_font(path_ok, size) ==
    [size |-> size, builtin |-> ~path_ok]

\* Horizontal advance of one glyph, in units of the font size.
GlyphAdvance(c) == IF IsSpace(c) THEN 1 ELSE 2

RECURSIVE Advance(_)
Advance(s) == IF s = <<>> THEN 0 ELSE GlyphAdvance(Head(s)) + Advance(Tail(s))

\* The slip of a width that grows at one smaller size, as a hinted glyph may.
TextWidthHinted(s, font) ==
    Advance(s) * (IF font.builtin THEN 1 ELSE IF font.size = 3 THEN 6 ELSE font.size)

\* _text_width: the width of the text's bounding box in the font.  Glyph
\* metrics scale with the size of a TrueType font; the built-in font measures
\* the same at every requested size.
text_width(s, font) ==
    Advance(s) * (IF font.builtin THEN 1 ELSE font.size)

\* _wrap_text, the loop over words: `cur` is `current`, `acc` is `lines`.
RECURSIVE WrapWords(_, _, _, _, _)
WrapWords(words, cur, acc, font, max_width) ==
    IF words = <<>> THEN (IF cur # <<>> THEN Append(acc, cur) ELSE acc)
    ELSE LET w == Head(words)
             test == Strip(cur \o <<" ">> \o w)
         IN IF text_width(test, font) <= max_width
            THEN WrapWords(Tail(words), test, acc, font, max_width)
            ELSE WrapWords(Tail(words), w,
                           IF cur # <<>> THEN Append(acc, cur) ELSE acc,
                           font, max_width)

\* The slip of committing `current` without the `if current` guard.
RECURSIVE WrapWordsNoGuard(_, _, _, _, _)
WrapWordsNoGuard(words, cur, acc, font, max_width) ==
    IF words = <<>> THEN (IF cur # <<>> THEN Append(acc, cur) ELSE acc)
    ELSE LET w == Head(words)
             test == Strip(cur \o <<" ">> \o w)
         IN IF text_width(test, font) <= max_width
            THEN WrapWordsNoGuard(Tail(words), test, acc, font, max_width)
            ELSE WrapWordsNoGuard(Tail(words), w, Append(acc, cur), font, max_width)

WrapTextUnguarded(text, font, max_width) ==
    WrapWordsNoGuard(Split(text), <<>>, <<>>, font, max_width)

wrap_text(text, font, max_width) ==
    WrapWords(Split(text), <<>>, <<>>, font, max_width)

\* The condition of _fit_font's `if`: the wrap has at most max_lines lines and
\* no line is wider than max_width.
FitsAt(path_ok, text, max_width, size, max_lines) ==
    LET font == load_font(path_ok, size)
        lines == wrap_text(text, font, max_width)
    IN /\ Len(lines) <= max_lines
       /\ \A i \in 1..Len(lines) : text_width(lines[i], font) <= max_width

\* _fit_font's while loop from `size`.
RECURSIVE FitFrom(_, _, _, _, _, _)
FitFrom(path_ok, text, max_width, size, min_size, max_lines) ==
    IF size >= min_size
    THEN IF FitsAt(path_ok, text, max_width, size, max_lines)
         THEN load_font(path_ok, size)
         ELSE FitFrom(path_ok, text, max_width, size - 2, min_size, max_lines)
    ELSE load_font(path_ok, min_size)

\* Mutants of _fit_font: the width test dropped from the `if`; the loop
\* variable returned after the loop; a step of 1.
RECURSIVE FitFromLinesOnly(_, _, _, _, _, _)
FitFromLinesOnly(path_ok, text, max_width, size, min_size, max_lines) ==
    IF size >= min_size
    THEN IF Len(wrap_text(text, load_font(path_ok, size), max_width)) <= max_lines
         THEN load_font(path_ok, size)
         ELSE FitFromLinesOnly(path_ok, text, max_width, size - 2, min_size, max_lines)
    ELSE load_font(path_ok, min_size)

RECURSIVE FitFromReturnsLoopSize(_, _, _, _, _, _)
FitFromReturnsLoopSize(path_ok, text, max_width, size, min_size, max_lines) ==
    IF size >= min_size
    THEN IF FitsAt(path_ok, text, max_width, size, max_lines)
         THEN load_font(path_ok, size)
         ELSE FitFromReturnsLoopSize(path_ok, text, max_width, size - 2, min_size, max_lines)
    ELSE load_font(path_ok, size)

RECURSIVE FitFromStepOne(_, _, _, _, _, _)
FitFromStepOne(path_ok, text, max_width, size, min_size, max_lines) ==
    IF size >= min_size
    THEN IF FitsAt(path_ok, text, max_width, size, max_lines)
         THEN load_font(path_ok, size)
         ELSE FitFromStepOne(path_ok, text, max_width, size - 1, min_size, max_lines)
    ELSE load_font(path_ok, min_size)

FitFontLinesOnly(path_ok, text, max_width, start_size, min_size, max_lines) ==
    FitFromLinesOnly(path_ok, text, max_width, start_size, min_size, max_lines)

FitFontReturnsLoopSize(path_ok, text, max_width, start_size, min_size, max_lines) ==
    FitFromReturnsLoopSize(path_ok, text, max_width, start_size, min_size, max_lines)

FitFontStepOne(path_ok, text, max_width, start_size, min_size, max_lines) ==
    FitFromStepOne(path_ok, text, max_width, start_size, min_size, max_lines)

fit_font(path_ok, text, max_width, start_size, min_size, max_lines) ==
    FitFrom(path_ok, text, max_width, start_size, min_size, max_lines)

(***************************************************************************)
(* Pixels: images, cover-resize, vertical gradient                         *)
(***************************************************************************)
POST_WIDTH == 1080
POST_HEIGHT == 1350
POST_SIZE == [w |-> POST_WIDTH, h |-> POST_HEIGHT]

Max2(a, b) == IF a >= b THEN a ELSE b

\* Image.crop(box): the region of the box, whatever part of it lies inside the
\* image (the rest is padded), so its size is that of the box.
crop(img, left, upper, right, lower) ==
    [w |-> right - left, h |-> lower - upper]

\* The slip of returning the resized image without the centre crop.
CoverResizeNoCrop(src, target_w, target_h, ulp) ==
    LET by_width == target_w * src.h >= target_h * src.w
        nw == IF by_width THEN target_w - ulp ELSE (src.w * target_h) \div src.h
        nh == IF by_width THEN (src.h * target_w) \div src.w ELSE target_h - ulp
    IN [w |-> nw, h |-> nh]

\* _cover_resize on an image of size src.  scale = max(target_w / w,
\* target_h / h) is a float: in the dimension that decides the scale the
\* product w * scale is target_w up to one unit in the last place, and int()
\* of it is target_w or target_w - 1 (ulp = 1).
cover_resize(src, target_w, target_h, ulp) ==
    LET by_width == target_w * src.h >= target_h * src.w
        nw == IF by_width THEN target_w - ulp ELSE (src.w * target_h) \div src.h
        nh == IF by_width THEN (src.h * target_w) \div src.w ELSE target_h - ulp
        resized == [w |-> nw, h |-> nh]
        left == (nw - target_w) \div 2
        top == (nh - target_h) \div 2
    IN crop(resized, left, top, left + target_w, top + target_h)

RECURSIVE Gcd(_, _)
Gcd(a, b) == IF b = 0 THEN a ELSE Gcd(b, a % b)

RECURSIVE IsPow2(_)
IsPow2(n) == n = 1 \/ (n > 1 /\ n % 2 = 0 /\ IsPow2(n \div 2))

\* t = y / h1 is an exact float when its reduced denominator is a power of 2.
ExactT(y, h1) == y = 0 \/ IsPow2(h1 \div Gcd(y, h1))

\* One channel of one row of _gradient_rgba: int(a * (1 - t) + b * t) with
\* t = y / h1.  The float sum is the exact value up to rounding, so int() of
\* it is the floor of the exact value, or one less when the exact value is a
\* whole number, t is not an exact float and the sum came out just below it
\* (the row is in `low`).
lerp(a, b, y, h1, low) ==
    LET num == a * (h1 - y) + b * y
    IN IF num % h1 = 0 /\ y \in low /\ ~ExactT(y, h1) /\ num > 0
       THEN (num \div h1) - 1
       ELSE num \div h1

\* The slip of dividing by h instead of h - 1: the last row stops short of b.
GradientRgbaOverH(w, h, a, b, alpha, low) ==
    [y \in 0..(h - 1) |->
       [x \in 0..(w - 1) |->
          <<lerp(a[1], b[1], y, h, low), lerp(a[2], b[2], y, h, low),
            lerp(a[3], b[3], y, h, low), alpha>>]]

\* _gradient_rgba: row y of the w x h image is the colour between a and b at
\* t = y / max(1, h - 1), with the given alpha, in each of its w pixels.
gradient_rgba(w, h, a, b, alpha, low) ==
    LET h1 == Max2(1, h - 1)
    IN [y \in 0..(h - 1) |->
          [x \in 0..(w - 1) |->
             <<lerp(a[1], b[1], y, h1, low), lerp(a[2], b[2], y, h1, low),
               lerp(a[3], b[3], y, h1, low), alpha>>]]

(***************************************************************************)
(* SpecTypo: one call of _wrap_text or of _fit_font on any bounded input   *)
(***************************************************************************)
Off == [pc |-> "off"]

TypoInputs ==
    [pc : {"input"}, font_ok : BOOLEAN, text : Texts, max_width : 1..MaxWidth,
     start_size : 1..MaxSize, min_size : 1..MaxSize, max_lines : 1..MaxLinesCeil,
     font : {None}, lines : {<<>>}]

InitTypo ==
    /\ par = Off
    /\ db = Off
    /\ pex = Off
    /\ typo \in TypoInputs
    /\ pix = Off /\ cfg = Off /\ pool = {} /\ out = {} /\ clock = 0 /\ last = Off /\ car = Off

\* lines = self._wrap_text(text, font, max_width) with the font at start_size
wrap_text_call ==
    /\ typo.pc = "input"
    /\ LET font == load_font(typo.font_ok, typo.start_size)
       IN typo' = [typo EXCEPT !.pc = "wrapped", !.font = font,
                               !.lines = wrap_text(typo.text, font, typo.max_width)]
    /\ UNCHANGED <<pix, cfg, pool, out, clock, last, car, pex, db, par>>

\* font = self._fit_font(...); lines = self._wrap_text(text, font, max_width),
\* as _render_estacio_like and _draw_wrapped_text use the fitted font.
fit_font_call ==
    /\ typo.pc = "input"
    /\ LET font == fit_font(typo.font_ok, typo.text, typo.max_width,
                            typo.start_size, typo.min_size, typo.max_lines)
       IN typo' = [typo EXCEPT !.pc = "fitted", !.font = font,
                               !.lines = wrap_text(typo.text, font, typo.max_width)]
    /\ UNCHANGED <<pix, cfg, pool, out, clock, last, car, pex, db, par>>

NextTypo == wrap_text_call \/ fit_font_call

SpecTypo == InitTypo /\ [][NextTypo]_vars

(***************************************************************************)
(* SpecPixels: one call of _gradient_rgba on any bounded input             *)
(***************************************************************************)
GRADIENT_A == <<30, 27, 75>>      \* "#1e1b4b"
GRADIENT_B == <<67, 56, 202>>     \* "#4338ca"

\* Colours with rising, falling and constant channels between them.
Colours == {GRADIENT_A, GRADIENT_B, <<0, 255, 29>>, <<255, 0, 29>>}

\* The alpha values _gradient_rgba is called with.
Alphas == {70, 240, 255}

\* Image.new("RGBA", (w, h), (0, 0, 0, 0))
new_image(w, h) == [y \in 0..(h - 1) |-> [x \in 0..(w - 1) |-> <<0, 0, 0, 0>>]]

PixInputs ==
    UNION {[pc : {"input"}, w : {w}, h : {h}, a : Colours, b : Colours,
            alpha : Alphas, px : {new_image(w, h)}] :
           w \in 1..MaxGradW, h \in 1..MaxGradH}

InitPixels ==
    /\ par = Off
    /\ db = Off
    /\ pex = Off
    /\ pix \in PixInputs
    /\ typo = Off /\ cfg = Off /\ pool = {} /\ out = {} /\ clock = 0 /\ last = Off /\ car = Off

gradient_rgba_call ==
    /\ pix.pc = "input"
    /\ \E low \in SUBSET (1..(pix.h - 2)) :
          pix' = [pix EXCEPT !.pc = "done",
                             !.px = gradient_rgba(pix.w, pix.h, pix.a, pix.b, pix.alpha, low)]
    /\ UNCHANGED <<typo, cfg, pool, out, clock, last, car, pex, db, par>>

NextPixels == gradient_rgba_call

SpecPixels == InitPixels /\ [][NextPixels]_vars

(***************************************************************************)
(* Claims about the typography fitter (SpecTypo)                           *)
(***************************************************************************)
Fitted == typo.pc = "fitted"

LineFits(i) == text_width(typo.lines[i], typo.font) <= typo.max_width

\* C1: every line of the wrap at the size _fit_font chose is at most max_width
\* wide, or the chosen size is min_size (overflow accepted).
C1_LinesFitOrMinSize ==
    Fitted =>
        \/ \A i \in 1..Len(typo.lines) : LineFits(i)
        \/ typo.font.size = typo.min_size

\* A fit that shrank below start_size, stopped above min_size and wraps to
\* two lines or more, all within max_width.
C1_Witness ==
    /\ Fitted
    /\ typo.min_size < typo.font.size /\ typo.font.size < typo.start_size
    /\ Len(typo.lines) >= 2
    /\ \A i \in 1..Len(typo.lines) : LineFits(i)

Candidates == {s \in typo.min_size..typo.start_size : (typo.start_size - s) % 2 = 0}

\* The greedy wrap at size s has at most max_lines lines, none wider than
\* max_width.
WrapFitsAt(s) ==
    LET font == load_font(typo.font_ok, s)
        lines == wrap_text(typo.text, font, typo.max_width)
    IN /\ Len(lines) <= typo.max_lines
       /\ \A i \in 1..Len(lines) : text_width(lines[i], font) <= typo.max_width

\* C3: _fit_font returns the largest candidate size whose wrap fits both
\* constraints, and min_size (with whatever wrap that gives) when no candidate
\* fits.
C3_LargestFittingCandidate ==
    Fitted =>
        LET good == {s \in Candidates : WrapFitsAt(s)}
        IN IF good # {}
           THEN /\ typo.font.size \in good
                /\ \A s \in good : s <= typo.font.size
           ELSE /\ typo.font.size = typo.min_size
                /\ typo.lines = wrap_text(typo.text,
                                          load_font(typo.font_ok, typo.min_size),
                                          typo.max_width)

\* A fit that rejected start_size and accepted a smaller candidate.
C3_Witness ==
    /\ Fitted /\ ~typo.font.builtin
    /\ ~WrapFitsAt(typo.start_size)
    /\ typo.font.size < typo.start_size
    /\ WrapFitsAt(typo.font.size)
    /\ Len(typo.lines) = typo.max_lines

Wrapped == typo.pc \in {"wrapped", "fitted"}

\* C4: the lines _wrap_text returns, joined by single spaces, hold exactly the
\* words of the text in their order; no line is empty; each line is its words
\* joined by single spaces; the first word of the next line would not have
\* fitted on the line before it; a line wider than max_width is a single word.
C4_WrapKeepsWords ==
    Wrapped =>
        /\ Split(Join(typo.lines)) = Split(typo.text)
        /\ \A i \in 1..Len(typo.lines) :
              /\ typo.lines[i] # <<>>
              /\ typo.lines[i] = Join(Split(typo.lines[i]))
              /\ ~LineFits(i) => Len(Split(typo.lines[i])) = 1
        /\ \A i \in 1..(Len(typo.lines) - 1) :
              text_width(typo.lines[i] \o <<" ">> \o Split(typo.lines[i + 1])[1],
                         typo.font) > typo.max_width

\* A wrap of a text with irregular whitespace into two lines or more, one of
\* them a single word wider than max_width.
C4_Witness ==
    /\ typo.pc = "wrapped"
    /\ typo.text # Join(Split(typo.text))
    /\ Len(typo.lines) >= 2
    /\ \E i \in 1..Len(typo.lines) : ~LineFits(i)
    /\ \E i \in 1..Len(typo.lines) : LineFits(i)

(***************************************************************************)
(* Claims about the synthetic gradient (SpecPixels)                        *)
(***************************************************************************)
Painted == pix.pc = "done"

Channel(y, c) == pix.px[y][0][c]

Rising(c) == \A y \in 0..(pix.h - 2) : Channel(y, c) <= Channel(y + 1, c)

Falling(c) == \A y \in 0..(pix.h - 2) : Channel(y, c) >= Channel(y + 1, c)

Within1(v, target) == v - target <= 1 /\ target - v <= 1

\* Every pixel of a row has the row's colour and the requested alpha.
RowsUniform ==
    \A y \in 0..(pix.h - 1) : \A x \in 0..(pix.w - 1) :
        /\ pix.px[y][x] = pix.px[y][0]
        /\ pix.px[y][x][4] = pix.alpha

\* C8 as stated: for every h >= 1, row 0 is colour A, the last row is colour B
\* within rounding tolerance, every channel is monotone over the rows, and
\* every row is of one colour with the requested alpha.
C8_GradientForEveryHeight ==
    Painted =>
        /\ \A c \in 1..3 : Within1(Channel(0, c), pix.a[c])
        /\ \A c \in 1..3 : Within1(Channel(pix.h - 1, c), pix.b[c])
        /\ \A c \in 1..3 : Rising(c) \/ Falling(c)
        /\ RowsUniform

\* C8 amended: row 0 is colour A; for h >= 2 the last row is colour B (for
\* h = 1 the only row is colour A); a channel whose two end values differ is
\* monotone over the rows, and a channel whose end values are equal stays
\* within one unit below that value (float truncation); every row is of one
\* colour with the requested alpha.
C8_Gradient ==
    Painted =>
        /\ \A c \in 1..3 : Channel(0, c) = pix.a[c]
        /\ pix.h >= 2 => \A c \in 1..3 : Channel(pix.h - 1, c) = pix.b[c]
        /\ \A c \in 1..3 :
              IF pix.a[c] # pix.b[c]
              THEN Rising(c) \/ Falling(c)
              ELSE \A y \in 0..(pix.h - 1) :
                      Channel(y, c) \in {pix.a[c] - 1, pix.a[c]}
        /\ RowsUniform

\* A gradient of three rows or more between two colours with a rising and a
\* falling channel, strictly between the end values in an inner row.
C8_Witness ==
    /\ Painted /\ pix.h >= 3 /\ pix.w >= 2
    /\ pix.a[1] < pix.b[1] /\ pix.a[2] > pix.b[2]
    /\ pix.a[1] < Channel(1, 1) /\ Channel(1, 1) < pix.b[1]
    /\ Channel(pix.h - 1, 2) = pix.b[2]

(***************************************************************************)
(* Files                                                                   *)
(***************************************************************************)
File(stem, ext) == [stem |-> stem, ext |-> ext]

\* None where a path or a size is expected.
NoPath == [none |-> TRUE]

\* Path.with_suffix
with_suffix(f, ext) == [f EXCEPT !.ext = ext]

\* PexelsClient._cache_path: download_dir / f"pexels_{photo_id}.jpg", and
\* download_dir is settings.BACKGROUNDS_DIR.
cache_path(photo_id) == File(<<"pexels", photo_id>>, "jpg")

\* The files BACKGROUNDS_DIR may hold: a photo put there by hand, the photo
\* the search returns, and the temporary file of its download.
PoolFiles == {File(<<"photo">>, "png"), cache_path(1), with_suffix(cache_path(1), "tmp")}

\* The explicit background paths a caller passes: a file that exists and one
\* that does not.
BG_OK == File(<<"bg_ok">>, "jpg")
BG_MISSING == File(<<"bg_missing">>, "jpg")
path_exists(p) == p = BG_OK

\* pick_random_background's candidates: the files matching *.jpg, *.jpeg,
\* *.png, *.webp.
pool_images(files) == {f \in files : f.ext \in {"jpg", "jpeg", "png", "webp"}}

\* The slip of a pool that leaves out the files the remote collaborator
\* downloaded.
PickRandomBackgroundNoDownloads(files, pick) ==
    IF pool_images(files) \ {cache_path(1)} # {} THEN pick ELSE NoPath

\* pick_random_background: random.choice(files) if files else None; `pick` is
\* the choice.
pick_random_background(files, pick) ==
    IF pool_images(files) # {} THEN pick ELSE NoPath

(***************************************************************************)
(* PexelsClient.get_background_for_query                                   *)
(***************************************************************************)
\* What the network does to the call, after the retries of _get and
\* _download_file: the search fails, finds nothing, finds a photo without a
\* usable src, the download is refused, breaks in mid-transfer, or succeeds.
NetOutcomes ==
    {"search_error", "no_photos", "no_src", "http_error", "broken_transfer", "downloaded"}

get_background_for_query(api_key, files, net) ==
    LET cached == cache_path(1)
        tmp == with_suffix(cached, "tmp")
        none == [path |-> NoPath, pool |-> files]
    IN IF ~api_key THEN none
       ELSE IF net \in {"search_error", "no_photos"} THEN none
       ELSE IF cached \in files THEN [path |-> cached, pool |-> files]
       ELSE IF net \in {"no_src", "http_error"} THEN none
       ELSE IF net = "broken_transfer"
            THEN [path |-> NoPath, pool |-> files \cup {tmp}]
            ELSE [path |-> cached, pool |-> (files \ {tmp}) \cup {cached}]

(***************************************************************************)
(* ImageEditor._build_background                                           *)
(***************************************************************************)
\* The slip of asking the remote collaborator whenever the explicit path
\* yields nothing, before looking at the pool.
ResolveBackgroundRemoteFirst(background_path, auto_fetch, api_key, files, pick, net) ==
    LET explicit == IF background_path # NoPath /\ path_exists(background_path)
                    THEN background_path ELSE NoPath
        s1 == IF background_path # NoPath THEN <<"explicit">> ELSE <<>>
        fetch == explicit = NoPath /\ auto_fetch
        got == IF fetch THEN get_background_for_query(api_key, files, net)
               ELSE [path |-> explicit, pool |-> files]
        s2 == IF fetch THEN Append(s1, "remote") ELSE s1
        picked == IF got.path = NoPath
                  THEN pick_random_background(files, pick) ELSE got.path
        s3 == IF got.path = NoPath THEN Append(s2, "pool") ELSE s2
    IN [chosen |-> picked, pool |-> got.pool, stages |-> s3,
        calls |-> IF fetch THEN 1 ELSE 0]

\* The slip of fetching whenever auto_fetch is set, whatever was chosen.
ResolveBackgroundAlwaysFetch(background_path, auto_fetch, api_key, files, pick, net) ==
    LET explicit == IF background_path # NoPath /\ path_exists(background_path)
                    THEN background_path ELSE NoPath
        s1 == IF background_path # NoPath THEN <<"explicit">> ELSE <<>>
        picked == IF explicit = NoPath
                  THEN pick_random_background(files, pick) ELSE explicit
        s2 == IF explicit = NoPath THEN Append(s1, "pool") ELSE s1
        got == IF auto_fetch THEN get_background_for_query(api_key, files, net)
               ELSE [path |-> picked, pool |-> files]
    IN [chosen |-> IF picked # NoPath THEN picked ELSE got.path, pool |-> got.pool,
        stages |-> IF auto_fetch THEN Append(s2, "remote") ELSE s2,
        calls |-> IF auto_fetch THEN 1 ELSE 0]

\* The slip of looking at the pool before the explicit path.
ResolveBackgroundPoolFirst(background_path, auto_fetch, api_key, files, pick, net) ==
    LET picked == pick_random_background(files, pick)
        s1 == <<"pool">>
        explicit == IF picked = NoPath /\ background_path # NoPath
                       /\ path_exists(background_path)
                    THEN background_path ELSE picked
        s2 == IF picked = NoPath /\ background_path # NoPath
              THEN Append(s1, "explicit") ELSE s1
        fetch == explicit = NoPath /\ auto_fetch
        got == IF fetch THEN get_background_for_query(api_key, files, net)
               ELSE [path |-> explicit, pool |-> files]
        s3 == IF fetch THEN Append(s2, "remote") ELSE s2
    IN [chosen |-> got.path, pool |-> got.pool, stages |-> s3,
        calls |-> IF fetch THEN 1 ELSE 0]

\* Lines 326-336: the background file, or None.  `stages` lists what was
\* tried, in order; `calls` counts the calls of get_background_for_query.
resolve_background(background_path, auto_fetch, api_key, files, pick, net) ==
    LET explicit == IF background_path # NoPath /\ path_exists(background_path)
                    THEN background_path ELSE NoPath
        s1 == IF background_path # NoPath THEN <<"explicit">> ELSE <<>>
        picked == IF explicit = NoPath
                  THEN pick_random_background(files, pick) ELSE explicit
        s2 == IF explicit = NoPath THEN Append(s1, "pool") ELSE s1
        fetch == picked = NoPath /\ auto_fetch
        got == IF fetch THEN get_background_for_query(api_key, files, net)
               ELSE [path |-> picked, pool |-> files]
        s3 == IF fetch THEN Append(s2, "remote") ELSE s2
    IN [chosen |-> got.path, pool |-> got.pool, stages |-> s3,
        calls |-> IF fetch THEN 1 ELSE 0]

\* An image: its size and the layers composited into it, bottom first.
Layer(kind, arg) == [kind |-> kind, arg |-> arg]

Error(type) == [error |-> type]

IsError(x) == "error" \in DOMAIN x

\* Image.alpha_composite(im1, im2) raises ValueError unless the sizes match.
alpha_composite(base, layer, size) ==
    IF IsError(base) THEN base
    ELSE IF base.size # size THEN Error("ValueError")
    ELSE [base EXCEPT !.layers = Append(@, layer)]

\* The sizes of the files a background is read from: small ones of every
\* shape, and ones at and above the post size.
SrcSides == (1..MaxSrcSide) \cup {POST_WIDTH, POST_HEIGHT, 1920, 3000}

SrcSizes == [w : SrcSides, h : SrcSides]

\* Line 340 for every source size: the sizes self._cover_resize(img, w, h)
\* returns.
CoverCases ==
    {cover_resize(src, POST_WIDTH, POST_HEIGHT, ulp) : src \in SrcSizes, ulp \in 0..1}

\* The slip of washing the gradient as the photo is washed: alpha 85, before
\* the blob.
ComposeBackgroundSameWash(chosen, cover) ==
    IF chosen # NoPath
    THEN LET img == [size |-> cover, layers |-> <<Layer("photo", 0)>>]
             base == [img EXCEPT !.layers = Append(@, Layer("blur", 3))]
             washed == alpha_composite(base, Layer("dark_wash", 85), POST_SIZE)
             tinted == alpha_composite(washed, Layer("gradient", 70), POST_SIZE)
         IN alpha_composite(tinted, Layer("blob", 0), POST_SIZE)
    ELSE LET base == [size |-> POST_SIZE, layers |-> <<Layer("gradient", 255)>>]
             washed == alpha_composite(base, Layer("dark_wash", 85), POST_SIZE)
         IN alpha_composite(washed, Layer("blob", 0), POST_SIZE)

\* Lines 338-360: the photo cover-resized, blurred and washed, or the
\* gradient with its blob and wash.  `cover` is the outcome of line 340.
compose_background(chosen, cover) ==
    IF chosen # NoPath
    THEN LET img == [size |-> cover, layers |-> <<Layer("photo", 0)>>]
             base == [img EXCEPT !.layers = Append(@, Layer("blur", 3))]
             washed == alpha_composite(base, Layer("dark_wash", 85), POST_SIZE)
             tinted == alpha_composite(washed, Layer("gradient", 70), POST_SIZE)
         IN alpha_composite(tinted, Layer("blob", 0), POST_SIZE)
    ELSE LET base == [size |-> POST_SIZE, layers |-> <<Layer("gradient", 255)>>]
             blobbed == alpha_composite(base, Layer("blob", 0), POST_SIZE)
         IN alpha_composite(blobbed, Layer("dark_wash", 35), POST_SIZE)

(***************************************************************************)
(* Layout variants, output encoder, create_post                            *)
(***************************************************************************)
Weights == {"medium", "semibold", "extrabold"}

\* A text layer drawn by _draw_text_with_shadow in the font _load_font gives
\* for the weight's file: the TrueType font, or the built-in one.
text_layer(kind, weight, size, fonts) ==
    Layer(kind, IF load_font(weight \in fonts, size).builtin THEN "builtin" ELSE "truetype")

\* The slip of pasting the logo without the exists() test.
PasteLogoUnchecked(layers, logo) ==
    layers \o <<Layer("logo_glow", 120), Layer("logo_shadow", 140), Layer("logo", 0)>>

\* _paste_logo_plain: nothing when the logo file is missing, otherwise the
\* glow, the shadow and the logo.
paste_logo_plain(layers, logo) ==
    IF ~logo THEN layers
    ELSE layers \o <<Layer("logo_glow", 120), Layer("logo_shadow", 140), Layer("logo", 0)>>

SAFE_MARGIN == 72

\* _contain_resize: the image scaled to fit max_w x max_h, no side below 1.
contain_resize(src, max_w, max_h) ==
    IF max_w * src.h <= max_h * src.w
    THEN [w |-> Max2(1, max_w), h |-> Max2(1, (src.h * max_w) \div src.w)]
    ELSE [w |-> Max2(1, (src.w * max_h) \div src.h), h |-> Max2(1, max_h)]

\* The logo file's size: sides that are powers of two, so that the float
\* scale of _contain_resize is exact.
LogoSrc == [w |-> 512, h |-> 256]

\* The slip of reserving the logo's width when the file is missing.
PasteLogoNextXReserved(x, logo, max_size) ==
    x + contain_resize(LogoSrc, max_size, max_size).w

\* The value _paste_logo_plain returns: x when the logo file is missing
\* (line 407), x + logo.width otherwise (line 428).
paste_logo_next_x(x, logo, max_size) ==
    IF ~logo THEN x ELSE x + contain_resize(LogoSrc, max_size, max_size).w

\* A layer drawn with its top left corner at (x, y).
At(layer, x, y) == layer @@ [x |-> x, y |-> y]

\* The wordmark "EduFlow", seven glyphs.
BrandText == <<"W", "W", "W", "W", "W", "W", "W">>

\* _render_estacio_like: the layers drawn onto the canvas, in order.
render_estacio_like(layers, add_logo, c) ==
    LET header == Append(layers, Layer("header", 240))
        logo == IF add_logo THEN paste_logo_plain(header, c.logo) ELSE header
        x0 == SAFE_MARGIN - 10
        x == IF add_logo THEN paste_logo_next_x(x0, c.logo, 70) + 16 ELSE x0
        brand_w == text_width(BrandText, load_font("extrabold" \in c.fonts, 42))
    IN logo \o
       <<At(text_layer("brand", "extrabold", 42, c.fonts), x, 32),
         At(text_layer("ia", "extrabold", 42, c.fonts), x + brand_w + 5, 32),
         At(text_layer("handle", "medium", 22, c.fonts),
            POST_WIDTH - SAFE_MARGIN - 200, 44),
         Layer("glass_card", 180),
         text_layer("kicker", "semibold", 24, c.fonts),
         text_layer("title", "extrabold", 68, c.fonts),
         text_layer("subtitle", "medium", 32, c.fonts),
         text_layer("cta", "semibold", 24, c.fonts)>>

\* The slip of giving variant B the glass panel and CTA line of variant A.
RenderMinimalWithPanel(layers, add_logo, c) ==
    LET logo == IF add_logo THEN paste_logo_plain(layers, c.logo) ELSE layers
    IN logo \o
       <<At(text_layer("handle", "semibold", 28, c.fonts),
            POST_WIDTH - SAFE_MARGIN - 240, SAFE_MARGIN + 10),
         Layer("glass_card", 180),
         text_layer("kicker", "semibold", 34, c.fonts),
         text_layer("title", "extrabold", 110, c.fonts),
         text_layer("subtitle", "medium", 44, c.fonts),
         text_layer("cta", "semibold", 24, c.fonts)>>

\* _render_minimal
render_minimal(layers, add_logo, c) ==
    LET logo == IF add_logo THEN paste_logo_plain(layers, c.logo) ELSE layers
    IN logo \o
       <<At(text_layer("handle", "semibold", 28, c.fonts),
            POST_WIDTH - SAFE_MARGIN - 240, SAFE_MARGIN + 10),
         text_layer("kicker", "semibold", 34, c.fonts),
         text_layer("title", "extrabold", 110, c.fonts),
         text_layer("subtitle", "medium", 44, c.fonts)>>

OutPath(dir, name) == [dir |-> dir, name |-> name]

\* A directory, as an entry of the file system.
Dir(d) == OutPath(d, <<>>)

\* The slip of always taking the timestamped path.
ResolveOutputPathTimestamp(output_path, now) ==
    OutPath("processed", <<"post", <<now>>>>)

\* _resolve_output_path: the given path, or PROCESSED_DIR / post_<ts>.jpg
\* with ts = datetime.now() to the second.
resolve_output_path(output_path, now) ==
    IF output_path # NoPath THEN output_path ELSE OutPath("processed", <<"post", <<now>>>>)

\* The slip of swallowing the encoder's exception.
SaveJpegSwallows(canvas, out_path, written, io_ok) ==
    [out |-> IF io_ok THEN written \cup {Dir(out_path.dir), out_path} ELSE written,
     error |-> None]

\* _save_jpeg_high: the file written at `out_path`, or the OSError of mkdir
\* or save (no permission, disk full) when the file system refuses (~io_ok).
save_jpeg_high(canvas, out_path, written, io_ok) ==
    IF io_ok THEN [out |-> written \cup {Dir(out_path.dir), out_path}, error |-> None]
    ELSE [out |-> written, error |-> "OSError"]

\* Python's None where a text is expected.
NoText == <<None>>

\* The texts _normalize_copy puts in place of a blank field.
FallbackTitle == <<"T">>
FallbackSubtitle == <<"S">>
FallbackKicker == <<"K">>

\* (x or "").strip() or fallback
StripOr(x, fallback) ==
    LET t == Strip(IF x = NoText THEN <<>> ELSE x)
    IN IF t # <<>> THEN t ELSE fallback

\* _normalize_copy
normalize_copy(title, subtitle, kicker) ==
    [kicker |-> StripOr(kicker, FallbackKicker),
     title |-> StripOr(title, FallbackTitle),
     subtitle |-> StripOr(subtitle, FallbackSubtitle)]

\* _smart_query: title.lower() raises AttributeError on None; every str
\* yields one of the fixed queries.
smart_query(title) ==
    IF title = NoText THEN Error("AttributeError") ELSE [query |-> "smart"]

\* Line 53: background_query or self._smart_query(title); an absent or empty
\* background_query is falsy.
background_query_arg(background_query, title) ==
    IF background_query # None THEN [query |-> background_query]
    ELSE smart_query(title)

\* The slip of taking variant A for its own tag only, variant B otherwise.
RenderTemplateMinimalByDefault(template, layers, add_logo, c) ==
    IF template = "estacio_like"
    THEN render_estacio_like(layers, add_logo, c)
    ELSE render_minimal(layers, add_logo, c)

\* create_post's choice of the variant: _render_minimal for the tag
\* "minimal", _render_estacio_like for any other tag.
render_template(template, layers, add_logo, c) ==
    IF template = "minimal"
    THEN render_minimal(layers, add_logo, c)
    ELSE render_estacio_like(layers, add_logo, c)

\* create_post.  `a` holds the arguments; pick, net, cover and io_ok are what
\* random.choice, the network, the opened file and the file system turn out
\* to be.
create_post(a, c, files, written, now, pick, net, cover, io_ok) ==
    LET copy == normalize_copy(a.title, a.subtitle, a.kicker)
        query == background_query_arg(a.background_query, a.title)
        r == resolve_background(a.background_path, a.auto_fetch, c.api_key,
                                files, pick, net)
        bg == compose_background(r.chosen, cover)
        seen == [pc |-> "done", args |-> a, pre_pool |-> files, io_ok |-> io_ok,
                 pre_out |-> written, copy |-> copy,
                 stages |-> Append(r.stages, IF r.chosen # NoPath THEN "photo" ELSE "gradient"),
                 chosen |-> r.chosen, calls |-> r.calls, pool |-> r.pool]
        failed(type) == [canvas |-> NoPath, layers |-> <<>>, target |-> NoPath,
                         returned |-> NoPath, error |-> type, out |-> written]
    IN IF IsError(query)
       THEN [seen EXCEPT !.stages = <<>>, !.chosen = NoPath, !.calls = 0,
                         !.pool = files] @@ failed(query.error)
       ELSE IF IsError(bg)
       THEN seen @@ failed(bg.error)
       ELSE LET drawn == render_template(a.template, bg.layers, a.add_logo, c)
                target == resolve_output_path(a.output_path, now)
                saved == save_jpeg_high(bg, target, written, io_ok)
            IN seen @@ [canvas |-> bg.size, layers |-> drawn, target |-> target,
                        returned |-> IF saved.error = None THEN target ELSE NoPath,
                        error |-> saved.error, out |-> saved.out]

(***************************************************************************)
(* Spec: calls of create_post and create_carousel over the file system     *)
(***************************************************************************)
\* The font files installed: all of them, or none.
FontSets == {Weights, {}}

Templates == {"estacio_like", "minimal", "promo"}

Configs ==
    [logo : BOOLEAN, fonts : FontSets, api_key : BOOLEAN,
     template : Templates, add_logo : BOOLEAN]

Idle == [pc |-> "idle"]

Init ==
    /\ par = Off
    /\ db = Off
    /\ pex = Off
    /\ typo = Off /\ pix = Off
    /\ cfg \in Configs
    /\ pool \in SUBSET {File(<<"photo">>, "png")}
    /\ out = {}
    /\ clock = 0
    /\ last = Idle
    /\ car = Off

\* The outcomes of random.choice in pick_random_background.
Picks(files) == IF pool_images(files) = {} THEN {NoPath} ELSE pool_images(files)

\* The answers of the network that matter to a call: all of them when the
\* call reaches get_background_for_query, one otherwise.
Nets(a, pick) ==
    IF resolve_background(a.background_path, a.auto_fetch, cfg.api_key,
                          pool, pick, "downloaded").calls > 0
    THEN NetOutcomes ELSE {"downloaded"}

\* The files a call may open: any, when it has a background file.
Covers(a, pick, net) ==
    IF resolve_background(a.background_path, a.auto_fetch, cfg.api_key,
                          pool, pick, net).chosen # NoPath
    THEN CoverCases ELSE {POST_SIZE}

\* One run of create_post with arguments a: the next file system and `last`.
RunCreatePost(a) ==
    \E pick \in Picks(pool), io_ok \in BOOLEAN :
      \E net \in Nets(a, pick) :
        \E cover \in Covers(a, pick, net) :
          \E r \in {create_post(a, cfg, pool, out, clock, pick, net, cover, io_ok)} :
             /\ last' = [f \in DOMAIN r \ {"pool", "out"} |-> r[f]]
             /\ pool' = r.pool
             /\ out' = r.out

create_post_call ==
    /\ \E bp \in {NoPath, BG_OK, BG_MISSING}, af \in BOOLEAN :
          RunCreatePost([title |-> <<"W">>, subtitle |-> NoText, kicker |-> NoText,
                         background_query |-> None,
                         background_path |-> bp, auto_fetch |-> af, output_path |-> NoPath,
                         template |-> cfg.template, add_logo |-> cfg.add_logo])
    /\ UNCHANGED <<typo, pix, cfg, clock, car, pex, db, par>>

RECURSIVE Digits(_)
Digits(i) == IF i < 10 THEN <<i>> ELSE Append(Digits(i \div 10), i % 10)

RECURSIVE ZeroPad(_, _)
ZeroPad(ds, width) == IF Len(ds) >= width THEN ds ELSE ZeroPad(<<0>> \o ds, width)

\* f"{i:03d}"
format_03d(i) == ZeroPad(Digits(i), 3)

\* The slip of numbering the files from 0 (enumerate without start=1).
CarouselOutPathFromZero(out_dir, basename, i) ==
    OutPath(out_dir, <<basename, format_03d(i - 1)>>)

\* out_dir / f"{basename}_{i:03d}.jpg"
carousel_out_path(out_dir, basename, i) ==
    OutPath(out_dir, <<basename, format_03d(i)>>)

\* slide.get("template", template_default)
slide_template(key, template_default) ==
    IF key = "absent" THEN template_default ELSE key

\* A slide's "template" key: absent, or a tag.
SlideKeys == {"absent", "minimal"}

\* create_carousel up to its loop: ValueError for no slides, otherwise the
\* output directory and an empty list of paths.
create_carousel_call ==
    /\ car.pc = "idle"
    /\ \E n \in 0..MaxSlides, bp \in {NoPath, BG_OK, BG_MISSING}, af \in BOOLEAN,
          od \in {None, "carousels"} :
          car' = [pc |-> IF n = 0 THEN "raised" ELSE "running",
                  error |-> IF n = 0 THEN "ValueError" ELSE None,
                  n |-> n, i |-> 1, key |-> None, paths |-> <<>>,
                  background_path |-> bp, auto_fetch |-> af,
                  out_dir |-> IF od # None THEN od ELSE "processed",
                  basename |-> "carousel"]
    /\ last' = Idle
    /\ UNCHANGED <<typo, pix, cfg, pool, out, clock, pex, db, par>>

\* The slip of catching a slide's exception and going on with the next slide.
CarouselAfterSlideSwallow(c, key, r) ==
    [c EXCEPT !.pc = IF c.i = c.n THEN "returned" ELSE "running",
              !.i = @ + 1,
              !.key = key,
              !.paths = IF r.error # None THEN @ ELSE Append(@, r.target)]

\* Lines 267-281: create_post's exception leaves create_carousel (no try
\* around the call), otherwise its path is appended and the loop goes on.
carousel_after_slide(c, key, r) ==
    IF r.error # None
    THEN [c EXCEPT !.pc = "raised", !.error = r.error, !.key = key]
    ELSE [c EXCEPT !.pc = IF c.i = c.n THEN "returned" ELSE "running",
                   !.i = @ + 1,
                   !.key = key,
                   !.paths = Append(@, r.target)]

\* One turn of create_carousel's loop: slide i, with the "template" key it
\* turns out to have, goes through create_post; its path is appended, or its
\* exception leaves create_carousel.
create_carousel_slide ==
    /\ car.pc = "running"
    /\ \E key \in SlideKeys :
          /\ RunCreatePost(
                 [title |-> <<>>, subtitle |-> <<>>, kicker |-> <<>>,
                  background_query |-> None,
                  background_path |-> car.background_path,
                  auto_fetch |-> car.auto_fetch,
                  output_path |-> carousel_out_path(car.out_dir, car.basename, car.i),
                  template |-> slide_template(key, cfg.template),
                  add_logo |-> cfg.add_logo])
          /\ car' = carousel_after_slide(car, key, last')
    /\ UNCHANGED <<typo, pix, cfg, clock, pex, db, par>>

tick ==
    /\ clock < MaxClock
    /\ clock' = clock + 1
    /\ UNCHANGED <<typo, pix, cfg, pool, out, last, car, pex, db, par>>

Next == create_post_call \/ tick

Spec == Init /\ [][Next]_vars

\* One call of create_carousel, with the logo and the fonts installed.
InitCarousel ==
    /\ par = Off
    /\ db = Off
    /\ pex = Off
    /\ typo = Off /\ pix = Off
    /\ cfg \in {c \in Configs : c.logo /\ c.fonts = Weights}
    /\ pool \in SUBSET {File(<<"photo">>, "png")}
    /\ out = {}
    /\ clock = 0
    /\ last = Idle
    /\ car = Idle

NextCarousel == create_carousel_call \/ create_carousel_slide

SpecCarousel == InitCarousel /\ [][NextCarousel]_vars

(***************************************************************************)
(* Claims on the background chain, the canvas and missing assets (Spec)    *)
(***************************************************************************)
Done == last.pc = "done"

Explicit == last.args.background_path # NoPath

ExplicitExists == Explicit /\ path_exists(last.args.background_path)

PoolWasEmpty == pool_images(last.pre_pool) = {}

\* The position of stage s in the stages tried, 0 when it was not tried.
Pos(s) ==
    IF \E i \in 1..Len(last.stages) : last.stages[i] = s
    THEN CHOOSE i \in 1..Len(last.stages) : last.stages[i] = s
    ELSE 0

Tried(s) == Pos(s) > 0

\* C5, as stated: a call given an explicit background path makes no call of
\* get_background_for_query, whatever the pool and auto_fetch.
C5_ExplicitNeverRemote ==
    (Done /\ Explicit) => last.calls = 0

\* C5, amended: a call given an explicit background path that exists on disk
\* makes no call of get_background_for_query, whatever the pool and
\* auto_fetch; a path that does not exist falls through to the pool and,
\* with the pool empty and auto_fetch set, to one remote call.
C5_ExistingExplicitNeverRemote ==
    Done =>
        /\ ExplicitExists => last.calls = 0
        /\ (Explicit /\ ~ExplicitExists) =>
              (last.calls = IF PoolWasEmpty /\ last.args.auto_fetch THEN 1 ELSE 0)

\* An existing explicit path given with auto_fetch set and an empty pool.
C5_Witness ==
    /\ Done /\ ExplicitExists
    /\ last.args.auto_fetch /\ PoolWasEmpty /\ cfg.api_key
    /\ last.calls = 0

\* C6: the stages are tried in the order explicit, pool, remote, gradient,
\* each only when every earlier one yielded nothing; the remote collaborator
\* is called only with auto_fetch set; with auto_fetch unset the render
\* still completes and writes its file (the file system permitting).
C6_ResolutionOrder ==
    Done =>
        /\ Tried("explicit") <=> Explicit
        /\ Tried("pool") <=> ~ExplicitExists
        /\ Tried("remote") <=> (~ExplicitExists /\ PoolWasEmpty /\ last.args.auto_fetch)
        /\ Tried("gradient") <=> last.chosen = NoPath
        /\ Tried("gradient") =>
              /\ ~ExplicitExists /\ PoolWasEmpty
              /\ Tried("remote") \/ ~last.args.auto_fetch
        /\ \A s, t \in {"explicit", "pool", "remote"} :
              (Tried(s) /\ Tried(t) /\ Pos(s) < Pos(t)) =>
                  <<s, t>> \in {<<"explicit", "pool">>, <<"explicit", "remote">>,
                                <<"pool", "remote">>}
        /\ Pos("gradient") + Pos("photo") = Len(last.stages)
        /\ ExplicitExists => last.chosen = last.args.background_path
        /\ (~ExplicitExists /\ ~PoolWasEmpty) => last.chosen \in pool_images(last.pre_pool)
        /\ last.calls = (IF Tried("remote") THEN 1 ELSE 0)
        /\ last.calls > 0 => last.args.auto_fetch
        /\ (~last.args.auto_fetch /\ last.io_ok) =>
              (last.error = None /\ last.target \in out)

\* A call that went through the whole chain: explicit path missing, pool
\* empty, remote search without a result, gradient.
C6_Witness ==
    /\ Done
    /\ last.stages = <<"explicit", "pool", "remote", "gradient">>
    /\ last.target \in out

\* C7: the canvas of every call has exactly the post size, on every path
\* (explicit file, pool file, fetched file, gradient), and _cover_resize
\* returns exactly the target size for every source size.
C7_CanvasIsPostSize ==
    /\ \A src \in SrcSizes, ulp \in 0..1 :
          cover_resize(src, POST_WIDTH, POST_HEIGHT, ulp) = POST_SIZE
    /\ Done => (last.canvas = POST_SIZE /\ last.error # "ValueError")

\* A call whose background is the file just fetched, cover-resized to the
\* post size.
C7_Witness ==
    /\ Done
    /\ last.chosen = cache_path(1) /\ last.calls = 1
    /\ last.canvas = POST_SIZE

Kinds(layers) == {layers[i].kind : i \in 1..Len(layers)}

TextKinds == {"brand", "ia", "handle", "kicker", "title", "subtitle", "cta"}

\* C9: with the logo file, the font files or the explicit background file
\* missing, create_post raises nothing and writes its file (the file system
\* permitting) on a canvas of the post size: no logo layer is drawn, the text
\* is drawn in the built-in font, the background comes from the later stages.
C9_MissingAssetNoError ==
    (Done /\ last.io_ok) =>
        /\ (~cfg.logo \/ cfg.fonts = {} \/ (Explicit /\ ~ExplicitExists)) =>
              /\ last.error = None
              /\ last.target \in out
              /\ last.canvas = POST_SIZE
        /\ ~cfg.logo => Kinds(last.layers) \cap {"logo", "logo_glow", "logo_shadow"} = {}
        /\ cfg.fonts = {} =>
              \A i \in 1..Len(last.layers) :
                  last.layers[i].kind \in TextKinds => last.layers[i].arg = "builtin"
        /\ (Explicit /\ ~ExplicitExists) =>
              (Tried("pool") /\ last.chosen # last.args.background_path)

\* A call asked for the logo with the logo, the fonts and the explicit
\* background all missing.
C9_Witness ==
    /\ Done /\ last.io_ok
    /\ ~cfg.logo /\ last.args.add_logo /\ cfg.fonts = {}
    /\ Explicit /\ ~ExplicitExists
    /\ last.error = None /\ last.target \in out

(***************************************************************************)
(* Claims on create_carousel (SpecCarousel)                                *)
(***************************************************************************)
\* <out_dir>/<basename>_<i as three digits>.jpg, for i below 1000.
Numbered(out_dir, basename, i) ==
    OutPath(out_dir, <<basename, <<i \div 100, (i \div 10) % 10, i % 10>>>>)

\* C10: a call of create_carousel with n >= 1 slides that returns has
\* rendered the slides one after the other and returns n paths, the i-th
\* being <out_dir>/<basename>_<i on three digits>.jpg, pairwise distinct;
\* while it runs, the paths so far are those of the slides before slide i.
C10_CarouselPaths ==
    /\ format_03d(7) = <<0, 0, 7>> /\ format_03d(42) = <<0, 4, 2>>
    /\ format_03d(123) = <<1, 2, 3>> /\ format_03d(1000) = <<1, 0, 0, 0>>
    /\ car.pc \in {"running", "returned"} =>
          /\ Len(car.paths) = car.i - 1
          /\ \A i \in 1..Len(car.paths) :
                /\ car.paths[i] = Numbered(car.out_dir, car.basename, i)
                /\ car.paths[i] \in out
          /\ \A i, j \in 1..Len(car.paths) : car.paths[i] = car.paths[j] => i = j
    /\ car.pc = "returned" => (car.n >= 1 /\ Len(car.paths) = car.n)

\* A carousel of three slides returned, written to the given directory.
C10_Witness ==
    /\ car.pc = "returned" /\ car.n = 3
    /\ car.out_dir = "carousels"
    /\ car.paths[3] = OutPath("carousels", <<"carousel", <<0, 0, 3>>>>)

\* C11: when the render of slide k fails, create_carousel ends with that
\* exception and returns no list; the slides after k are never rendered (their
\* files do not exist and the last render is slide k's); the files written for
\* slides 1..k-1 are still on disk.  No failed render is followed by another.
C11_CarouselPartialFailure ==
    /\ (car.pc \in {"running", "returned", "raised"} /\ last.pc = "done"
            /\ last.error # None) =>
          (car.pc = "raised" /\ car.error = last.error)
    /\ (car.pc = "raised" /\ car.n >= 1) =>
          /\ last.pc = "done" /\ last.error # None
          /\ last.args.output_path = Numbered(car.out_dir, car.basename, car.i)
          /\ Len(car.paths) = car.i - 1
          /\ \A j \in 1..(car.i - 1) :
                Numbered(car.out_dir, car.basename, j) \in out
          /\ \A j \in (car.i + 1)..car.n :
                Numbered(car.out_dir, car.basename, j) \notin out

\* The second of three slides failed, the first one's file written.
C11_Witness ==
    /\ car.pc = "raised" /\ car.n = 3 /\ car.i = 2
    /\ car.error = "OSError"
    /\ Numbered(car.out_dir, car.basename, 1) \in out

(***************************************************************************)
(* SpecPexels: one call of get_background_for_query from _build_background, *)
(* attempt by attempt                                                      *)
(***************************************************************************)
\* stop_after_attempt(3) of both @retry decorators.
STOP_AFTER_ATTEMPT == 3

Min2(a, b) == IF a <= b THEN a ELSE b

\* wait_exponential(multiplier=1.2, min=1, max=8) after failed attempt number
\* `attempt`, in tenths of a second: 1.2 * 2^(attempt-1) kept within [1, 8].
wait_exponential(attempt) == Max2(10, Min2(80, 12 * 2^(attempt - 1)))

\* What one attempt of requests.get / resp.json / the chunked write does.
GetOutcomes ==
    {"photo", "photo_no_src", "no_photos",
     "timeout", "rate_limit", "http_4xx", "http_5xx", "bad_body", "bad_json"}

DownloadOutcomes ==
    {"saved", "timeout", "rate_limit", "http_4xx", "http_5xx",
     "broken_transfer", "os_error"}

\* The exception an outcome raises: requests raises RequestException,
\* _raise_for_status and the dict test raise PexelsError, resp.json() of a
\* body that is no JSON raises ValueError, open(tmp, "wb") raises OSError.
exception_of(o) ==
    CASE o \in {"timeout", "broken_transfer"} -> "RequestException"
      [] o \in {"rate_limit", "http_4xx", "http_5xx", "bad_body"} -> "PexelsError"
      [] o = "bad_json" -> "ValueError"
      [] o = "os_error" -> "OSError"
      [] OTHER -> None

\* The failures that another attempt may cure.
Transient == {"timeout", "rate_limit", "http_5xx", "broken_transfer"}

\* The slip of retrying without a stop condition.
ShouldRetryUnbounded(o, attempt) ==
    exception_of(o) \in {"RequestException", "PexelsError"}

\* retry_if_exception_type((requests.RequestException, PexelsError)) with
\* stop_after_attempt(3).
should_retry(o, attempt) ==
    /\ exception_of(o) \in {"RequestException", "PexelsError"}
    /\ attempt < STOP_AFTER_ATTEMPT

PexIdle ==
    [pc |-> "idle", attempt |-> 0, fails |-> <<>>, waits |-> <<>>,
     gets |-> 0, downloads |-> 0, result |-> NoPath, raised |-> None,
     canvas |-> NoPath, stage |-> None]

\* The call returns: the path or None.
Returned(p, path) == [p EXCEPT !.pc = "returned", !.result = path]

\* The slip of letting the last exception leave get_background_for_query.
AfterFailureEscapes(p, o) ==
    IF should_retry(o, p.attempt)
    THEN [p EXCEPT !.attempt = @ + 1,
                   !.fails = Append(@, o),
                   !.waits = Append(@, wait_exponential(p.attempt))]
    ELSE [p EXCEPT !.pc = "returned", !.raised = exception_of(o),
                   !.fails = Append(@, o)]

\* The sub-call fails with outcome o at attempt p.attempt: slept and tried
\* again, or the exception reaches the except clause of
\* get_background_for_query (lines 58-60, 84-86), which returns None.
AfterFailure(p, o) ==
    IF should_retry(o, p.attempt)
    THEN [p EXCEPT !.attempt = @ + 1,
                   !.fails = Append(@, o),
                   !.waits = Append(@, wait_exponential(p.attempt))]
    ELSE [Returned(p, NoPath) EXCEPT !.fails = Append(@, o)]

InitPexels ==
    /\ par = Off
    /\ db = Off
    /\ typo = Off /\ pix = Off /\ last = Off /\ car = Off
    /\ cfg \in {c \in Configs : c.logo /\ c.fonts = Weights /\ c.add_logo
                                  /\ c.template = "estacio_like"}
    /\ pool \in SUBSET {cache_path(1), with_suffix(cache_path(1), "tmp")}
    /\ out = {}
    /\ clock = 0
    /\ pex = PexIdle

\* Line 336 reached (nothing chosen, auto_fetch set); lines 49-50.
get_background_for_query_call ==
    /\ pex.pc = "idle"
    /\ pex' = IF ~cfg.api_key THEN Returned(pex, NoPath)
              ELSE [pex EXCEPT !.pc = "search", !.attempt = 1]
    /\ UNCHANGED <<typo, pix, cfg, pool, out, clock, last, car, db, par>>

\* One attempt of _get inside search_photos, and lines 62-78 after a result.
get_attempt ==
    /\ pex.pc = "search"
    /\ \E o \in GetOutcomes :
          LET p == [pex EXCEPT !.gets = @ + 1]
          IN pex' =
                IF o = "no_photos" THEN Returned(p, NoPath)
                ELSE IF o \in {"photo", "photo_no_src"}
                THEN IF cache_path(1) \in pool THEN Returned(p, cache_path(1))
                     ELSE IF o = "photo_no_src" THEN Returned(p, NoPath)
                     ELSE [p EXCEPT !.pc = "download", !.attempt = 1,
                                    !.fails = <<>>, !.waits = <<>>]
                ELSE AfterFailure(p, o)
    /\ UNCHANGED <<typo, pix, cfg, pool, out, clock, last, car, db, par>>

\* One attempt of _download_file: the body streamed to the .tmp file, which
\* replaces the destination only when the transfer is complete.
download_attempt ==
    /\ pex.pc = "download"
    /\ \E o \in DownloadOutcomes :
          LET p == [pex EXCEPT !.downloads = @ + 1]
              tmp == with_suffix(cache_path(1), "tmp")
          IN /\ pex' = IF o = "saved" THEN Returned(p, cache_path(1))
                       ELSE AfterFailure(p, o)
             /\ pool' = IF o = "saved" THEN (pool \ {tmp}) \cup {cache_path(1)}
                        ELSE IF o = "broken_transfer" THEN pool \cup {tmp}
                        ELSE pool
    /\ UNCHANGED <<typo, pix, cfg, out, clock, last, car, db, par>>

\* Lines 338-360 with what the call returned.
build_background_return ==
    /\ pex.pc = "returned"
    /\ \E cover \in (IF pex.result # NoPath THEN CoverCases ELSE {POST_SIZE}) :
          \E bg \in {compose_background(pex.result, cover)} :
             pex' = [pex EXCEPT !.pc = "composed",
                                !.canvas = IF IsError(bg) THEN NoPath ELSE bg.size,
                                !.raised = IF IsError(bg) THEN bg.error ELSE None,
                                !.stage = IF IsError(bg) THEN None ELSE bg.layers[1].kind]
    /\ UNCHANGED <<typo, pix, cfg, pool, out, clock, last, car, db, par>>

NextPexels ==
    \/ get_background_for_query_call
    \/ get_attempt
    \/ download_attempt
    \/ build_background_return

SpecPexels == InitPexels /\ [][NextPexels]_vars

\* The scheduling of one thread: the call in progress keeps running.
FairSpecPexels == SpecPexels /\ WF_vars(NextPexels)

PexReturned == pex.pc \in {"returned", "composed"}

\* C12: no failure of the search or of the download leaves
\* get_background_for_query as an exception: the call returns None (or the
\* file it has in the download directory), also after the third failed
\* attempt; with None returned, _build_background builds the gradient canvas
\* of the post size.
C12_FetchFailureFallsToGradient ==
    /\ pex.raised = None
    /\ PexReturned =>
          /\ pex.result \in {NoPath, cache_path(1)}
          /\ pex.result = cache_path(1) => cache_path(1) \in pool
          /\ (Len(pex.fails) > Len(pex.waits)) => pex.result = NoPath
    /\ (pex.pc = "composed" /\ pex.result = NoPath) =>
          (pex.stage = "gradient" /\ pex.canvas = POST_SIZE)

\* The download failed three times, the last time with a rate limit, and the
\* gradient was built.
C12_Witness ==
    /\ pex.pc = "composed"
    /\ pex.downloads = STOP_AFTER_ATTEMPT
    /\ Len(pex.fails) = STOP_AFTER_ATTEMPT /\ pex.fails[3] = "rate_limit"
    /\ pex.stage = "gradient"

\* C13, as stated: an attempt is followed by another one only after a
\* transient failure.
C13_RetryOnlyOnTransient ==
    \A i \in 1..Len(pex.waits) : pex.fails[i] \in Transient

\* What C13 asks of every state: at most three attempts of each sub-call; a
\* new attempt only after a RequestException or a PexelsError (transient or
\* not), after a wait of 1.2 s, then 2.4 s; any other exception, and the third
\* failure, end the call with None.
C13_Bounded ==
    /\ pex.attempt <= STOP_AFTER_ATTEMPT
    /\ pex.gets <= STOP_AFTER_ATTEMPT /\ pex.downloads <= STOP_AFTER_ATTEMPT
    /\ Len(pex.waits) <= STOP_AFTER_ATTEMPT - 1
    /\ \A i \in 1..Len(pex.waits) :
          /\ exception_of(pex.fails[i]) \in {"RequestException", "PexelsError"}
          /\ pex.waits[i] = 12 * 2^(i - 1)
    /\ Len(pex.fails) > Len(pex.waits) => (PexReturned /\ pex.result = NoPath)
    /\ (pex.pc \in {"search", "download"}) =>
          (Len(pex.fails) = pex.attempt - 1 /\ Len(pex.waits) = pex.attempt - 1)

\* C13, amended: the bounds above hold throughout, and a call that was made
\* returns.
C13_BoundedRetriesTerminate ==
    /\ []C13_Bounded
    /\ (pex.pc \in {"search", "download"}) ~> PexReturned

\* The search failed with a permanent HTTP error, was retried twice after
\* waits of 1.2 s and 2.4 s, and the call returned None.
C13_Witness ==
    /\ pex.pc = "returned" /\ pex.result = NoPath
    /\ pex.gets = STOP_AFTER_ATTEMPT
    /\ pex.fails = <<"http_4xx", "http_4xx", "http_4xx">>
    /\ pex.waits = <<12, 24>>

(***************************************************************************)
(* SpecCopy: create_post called with every kind of copy and output path    *)
(***************************************************************************)
\* The values of a copy field: None, empty, blank, a word, a word in blanks.
CopyTexts == {NoText, <<>>, <<" ">>, <<"W">>, <<" ", "W", " ">>}

\* An output path in a directory that may not exist yet.
OUT_P == OutPath("exports/2024", <<"cover", <<>>>>)

InitCopy ==
    /\ par = Off
    /\ db = Off
    /\ typo = Off /\ pix = Off /\ car = Off /\ pex = Off
    /\ cfg \in {c \in Configs : c.logo /\ c.fonts = Weights /\ c.add_logo
                                  /\ c.template \in {"estacio_like", "minimal"}
                                  /\ ~c.api_key}
    /\ pool = {}
    /\ out \in {{}, {Dir(OUT_P.dir), OUT_P}}
    /\ clock = 0
    /\ last = Idle

\* One call of create_post per behaviour.
create_post_copy_call ==
    /\ last.pc = "idle"
    /\ \E title \in CopyTexts, subtitle, kicker \in {NoText, <<" ">>, <<"W", " ">>},
          bq \in {None, "campus"}, bp \in {NoPath, BG_OK}, op \in {NoPath, OUT_P} :
          RunCreatePost([title |-> title, subtitle |-> subtitle, kicker |-> kicker,
                         background_query |-> bq,
                         background_path |-> bp, auto_fetch |-> FALSE, output_path |-> op,
                         template |-> cfg.template, add_logo |-> cfg.add_logo])
    /\ UNCHANGED <<typo, pix, cfg, clock, car, pex, db, par>>

NextCopy == create_post_copy_call

SpecCopy == InitCopy /\ [][NextCopy]_vars

\* C14: a call given output_path P that ends without exception has created
\* P's parent directory, written the image at P and at no other path, and
\* returned P.
C14_OutputPathKept ==
    (Done /\ last.args.output_path # NoPath /\ last.error = None) =>
        /\ last.target = last.args.output_path
        /\ last.returned = last.args.output_path
        /\ last.args.output_path \in out
        /\ Dir(last.args.output_path.dir) \in out
        /\ out = last.pre_out \cup {Dir(last.args.output_path.dir), last.args.output_path}

\* A first write to a path whose directory did not exist.
C14_Witness ==
    /\ Done /\ last.args.output_path = OUT_P /\ last.error = None
    /\ Dir(OUT_P.dir) \notin last.pre_out
    /\ last.returned = OUT_P /\ OUT_P \in out

FinalLayer(template) == IF template = "minimal" THEN "subtitle" ELSE "cta"

\* C15: a call returns a path only when the file was written, after the
\* background and every layer of the selected variant; a call that raises
\* before the encoder (here: on the query of a null title) leaves the file
\* system as it was; a failure of the encoder reaches the caller.
C15_WriteOnlyAfterRender ==
    Done =>
        /\ last.returned # NoPath <=> last.error = None
        /\ last.error = None =>
              /\ last.returned = last.target /\ last.target \in out
              /\ last.canvas = POST_SIZE
              /\ last.layers # <<>>
              /\ last.layers[Len(last.layers)].kind = FinalLayer(last.args.template)
              /\ last.layers[1].kind \in {"photo", "gradient"}
        /\ last.error \notin {None, "OSError"} =>
              (out = last.pre_out /\ last.layers = <<>> /\ last.target = NoPath)
        /\ ~last.io_ok => last.error # None

\* A call that failed before the encoder, with a file system that would
\* have taken the file.
C15_Witness ==
    /\ Done /\ last.error = "AttributeError" /\ last.io_ok
    /\ last.args.output_path = OUT_P /\ OUT_P \notin out

IsBlank(x) == x = NoText \/ Strip(x) = <<>>

NormalizedAs(field, x, fallback) ==
    /\ field # <<>> /\ field # NoText
    /\ Strip(field) = field
    /\ field = IF IsBlank(x) THEN fallback ELSE Strip(x)

\* What _normalize_copy does for C17: three non-empty stripped fields, the
\* fallback for a blank input, the stripped input otherwise.
CopyIsNormalized ==
    /\ NormalizedAs(last.copy.title, last.args.title, FallbackTitle)
    /\ NormalizedAs(last.copy.subtitle, last.args.subtitle, FallbackSubtitle)
    /\ NormalizedAs(last.copy.kicker, last.args.kicker, FallbackKicker)

\* C17, as stated: for every title, subtitle and kicker the copy has three
\* non-empty stripped fields, fallbacks for blanks, and no step of create_post
\* fails because a field is blank or null.
C17_CopyNormalizedNoFailure ==
    Done =>
        /\ CopyIsNormalized
        /\ last.io_ok => last.error = None

(***************************************************************************)
(* Claims on the layout with the logo file missing (Spec)                  *)
(***************************************************************************)
NotLogo(l) == l.kind \notin {"logo", "logo_glow", "logo_shadow"}

NotBackground(l) == l.kind \notin {"photo", "blur", "dark_wash", "gradient", "blob"}

\* What the selected variant draws over a background.
Drawn(template, add_logo, c) ==
    IF template = "minimal" THEN render_minimal(<<>>, add_logo, c)
    ELSE render_estacio_like(<<>>, add_logo, c)

\* The layout of the same call with the logo file present, its logo layers
\* left out.
LayoutWithLogoFile ==
    SelectSeq(Drawn(last.args.template, last.args.add_logo, [cfg EXCEPT !.logo = TRUE]),
              NotLogo)

LogoSkipped == Done /\ last.error = None /\ last.args.add_logo /\ ~cfg.logo

\* The width of the logo as variant A pastes it.
HeaderLogoWidth == contain_resize(LogoSrc, 70, 70).w

\* C20, as stated: with the logo enabled and its file missing no logo layer is
\* drawn and every other element is drawn where it is with the file present.
C20_NoReflow ==
    LogoSkipped =>
        /\ \A i \in 1..Len(last.layers) : NotLogo(last.layers[i])
        /\ SelectSeq(last.layers, NotBackground) = LayoutWithLogoFile

\* C20, amended: with the logo enabled and its file missing no logo layer is
\* drawn; in variant A the wordmark ("EduFlow" and "IA") is drawn further
\* left by the width of the logo, taking the logo's place; every other
\* element of variant A and every element of variant B is drawn where it is
\* with the file present.
C20_OnlyWordmarkMoves ==
    LogoSkipped =>
        /\ \A i \in 1..Len(last.layers) : NotLogo(last.layers[i])
        /\ SelectSeq(last.layers, NotBackground) =
              [i \in 1..Len(LayoutWithLogoFile) |->
                  IF LayoutWithLogoFile[i].kind \in {"brand", "ia"}
                  THEN [LayoutWithLogoFile[i] EXCEPT !.x = @ - HeaderLogoWidth]
                  ELSE LayoutWithLogoFile[i]]

\* Variant A rendered with the logo enabled and its file missing: the
\* wordmark starts at x = 78.
C20_Witness ==
    /\ LogoSkipped /\ last.args.template = "estacio_like"
    /\ \E i \in 1..Len(last.layers) :
          last.layers[i].kind = "brand" /\ last.layers[i].x = 78

(***************************************************************************)
(* SpecTwice: create_post called twice with the same arguments             *)
(***************************************************************************)
\* The pool holds no image, or two for random.choice to choose from.
InitTwice ==
    /\ par = Off
    /\ db = Off
    /\ typo = Off /\ pix = Off /\ car = Off /\ pex = Off
    /\ cfg \in {c \in Configs : c.logo /\ c.fonts = Weights}
    /\ pool \in {{}, {File(<<"photo">>, "png"), File(<<"campus">>, "jpg")}}
    /\ out = {}
    /\ clock = 0
    /\ last = Idle

\* The first call.  `cover` is kept: it is the size of the opened file,
\* which the second call finds again when it opens the same file.
create_post_first ==
    /\ last.pc = "idle"
    /\ \E bp \in {NoPath, BG_OK}, af \in BOOLEAN :
         LET a == [title |-> <<"W">>, subtitle |-> NoText, kicker |-> NoText,
                   background_query |-> None,
                   background_path |-> bp, auto_fetch |-> af, output_path |-> NoPath,
                   template |-> cfg.template, add_logo |-> cfg.add_logo]
         IN \E pick \in Picks(pool), io_ok \in BOOLEAN :
              \E net \in Nets(a, pick) :
                \E cover \in Covers(a, pick, net) :
                  \E r \in {create_post(a, cfg, pool, out, clock, pick, net, cover, io_ok)} :
                     /\ last' = [f \in DOMAIN r \ {"pool", "out"} |-> r[f]]
                                    @@ [run |-> 1, cover |-> cover]
                     /\ pool' = r.pool
                     /\ out' = r.out
    /\ UNCHANGED <<typo, pix, cfg, clock, car, pex, db, par>>

\* The second call, with the arguments of the first: random.choice, the
\* network and the file system answer anew, the files read are unchanged.
create_post_again ==
    /\ last.pc = "done" /\ last.run = 1
    /\ \E pick \in Picks(pool), io_ok \in BOOLEAN :
         \E net \in Nets(last.args, pick) :
           \E cover \in Covers(last.args, pick, net) :
             \E r \in {create_post(last.args, cfg, pool, out, clock, pick, net, cover, io_ok)} :
                /\ r.chosen = last.chosen => cover = last.cover
                /\ last' = [f \in DOMAIN r \ {"pool", "out"} |-> r[f]]
                               @@ [run |-> 2, cover |-> cover,
                                   first |-> [chosen |-> last.chosen, canvas |-> last.canvas,
                                              layers |-> last.layers, error |-> last.error]]
                /\ pool' = r.pool
                /\ out' = r.out
    /\ UNCHANGED <<typo, pix, cfg, clock, car, pex, db, par>>

NextTwice == create_post_first \/ create_post_again \/ tick

SpecTwice == InitTwice /\ [][NextTwice]_vars

Again == last.pc = "done" /\ last.run = 2

\* The canvas of a call before encoding: the file it was composed from, its
\* size, and its layers with their positions and parameters.
SameCanvas ==
    /\ last.chosen = last.first.chosen
    /\ last.canvas = last.first.canvas
    /\ last.layers = last.first.layers

\* C16: two calls with the same copy, variant, logo flag, handle and a
\* background source that is not random (an explicit file that exists, or
\* no file at all, which gives the gradient) build the same canvas: the same
\* background, the same size, the same sequence of layers at the same
\* positions with the same parameters.
C16_SameInputsSameCanvas ==
    (Again /\ (ExplicitExists \/ (last.chosen = NoPath /\ last.first.chosen = NoPath)))
        => SameCanvas

\* Two calls on an explicit file, rendered at different times, the second
\* with a pool of two images to choose from.
C16_Witness ==
    /\ Again /\ ExplicitExists
    /\ Cardinality(pool_images(last.pre_pool)) = 2
    /\ last.layers # <<>> /\ SameCanvas
    /\ clock = 1 /\ Cardinality(out) = 3

(***************************************************************************)
(* SpecDb: ContentRepository over the content_history table                *)
(***************************************************************************)
\* The content hashes in use, and the processes holding a repository.
Hashes == {"h1", "h2"}

Clients == {1, 2}

\* What SQLite does to one use of the database: it works, sqlite3.connect
\* raises (which _connect turns into EduFlowError), or the statement or the
\* commit raises another sqlite3.Error (locked, disk I/O).
DbFaults == {"none", "connect", "sqlite"}

Stored(rows, content_hash) ==
    \E i \in 1..Len(rows) : rows[i].content_hash = content_hash

\* exists_by_hash: the answer of the SELECT; False on sqlite3.Error; the
\* EduFlowError of _connect is not a sqlite3.Error and leaves the method.
exists_by_hash(rows, content_hash, fault) ==
    IF fault = "connect" THEN Error("EduFlowError")
    ELSE IF fault = "sqlite" THEN [value |-> FALSE]
    ELSE [value |-> Stored(rows, content_hash)]

\* The slip of a table whose content_hash column is not UNIQUE.
InsertStatementNoUnique(rows, content_hash, status, fault) ==
    IF fault \in {"connect", "sqlite"}
    THEN [rows |-> rows, id |-> 0, error |-> "EduFlowError"]
    ELSE [rows |-> Append(rows, [id |-> Len(rows) + 1, content_hash |-> content_hash,
                                 status |-> status]),
          id |-> Len(rows) + 1, error |-> None]

\* Lines 70-97 of insert: the INSERT and its commit.  content_hash is UNIQUE
\* (init_db.py line 24), so a stored hash raises sqlite3.IntegrityError,
\* which becomes ContentDuplicateError; any other sqlite3.Error and the
\* failure of _connect become EduFlowError and the transaction adds nothing.
\* id is AUTOINCREMENT and no row is ever deleted.
insert_statement(rows, content_hash, status, fault) ==
    IF fault \in {"connect", "sqlite"}
    THEN [rows |-> rows, id |-> 0, error |-> "EduFlowError"]
    ELSE IF Stored(rows, content_hash)
    THEN [rows |-> rows, id |-> 0, error |-> "ContentDuplicateError"]
    ELSE [rows |-> Append(rows, [id |-> Len(rows) + 1, content_hash |-> content_hash,
                                 status |-> status]),
          id |-> Len(rows) + 1, error |-> None]

\* mark_status: the UPDATE of the rows with the hash; sqlite3.Error is
\* logged and swallowed.
mark_status(rows, content_hash, status, fault) ==
    IF fault # "none" THEN rows
    ELSE [i \in 1..Len(rows) |->
             IF rows[i].content_hash = content_hash
             THEN [rows[i] EXCEPT !.status = status] ELSE rows[i]]

InitDb ==
    /\ par = Off
    /\ typo = Off /\ pix = Off /\ car = Off /\ pex = Off
    /\ cfg = Off /\ pool = {} /\ out = {} /\ clock = 0 /\ last = Off
    /\ db = [rows |-> <<>>, cl |-> [c \in Clients |-> Idle]]

\* A client is between calls.
Free(c) == db.cl[c].pc \in {"idle", "done"}

\* insert up to line 68: exists_by_hash answers, and a hash found raises
\* ContentDuplicateError.  `stored` is whether the hash was in the table when
\* insert was called; before and after are the table around the step that
\* ends the call.
insert_call(c) ==
    /\ Free(c)
    /\ \E h \in Hashes, fault \in DbFaults :
         LET e == exists_by_hash(db.rows, h, fault)
             call == [op |-> "insert", content_hash |-> h, stored |-> Stored(db.rows, h),
                      check |-> fault, write |-> None, before |-> db.rows,
                      after |-> db.rows, id |-> 0]
             raised(type) == call @@ [pc |-> "done", error |-> type]
         IN db' = [db EXCEPT !.cl[c] =
                      IF IsError(e) THEN raised(e.error)
                      ELSE IF e.value THEN raised("ContentDuplicateError")
                      ELSE call @@ [pc |-> "insert", error |-> None]]
    /\ UNCHANGED <<typo, pix, cfg, pool, out, clock, last, car, pex, par>>

\* insert from line 70: the INSERT of the record, in a transaction of its own.
insert_write(c) ==
    /\ db.cl[c].pc = "insert"
    /\ \E fault \in DbFaults :
         \E r \in {insert_statement(db.rows, db.cl[c].content_hash, "created", fault)} :
            db' = [db EXCEPT !.rows = r.rows,
                             !.cl[c] = [@ EXCEPT !.pc = "done", !.write = fault,
                                                 !.before = db.rows, !.after = r.rows,
                                                 !.id = r.id, !.error = r.error]]
    /\ UNCHANGED <<typo, pix, cfg, pool, out, clock, last, car, pex, par>>

exists_by_hash_call(c) ==
    /\ Free(c)
    /\ \E h \in Hashes, fault \in DbFaults :
         \E e \in {exists_by_hash(db.rows, h, fault)} :
            db' = [db EXCEPT !.cl[c] =
                      [pc |-> "done", op |-> "exists", content_hash |-> h,
                       stored |-> Stored(db.rows, h), check |-> fault,
                       value |-> IF IsError(e) THEN FALSE ELSE e.value,
                       error |-> IF IsError(e) THEN e.error ELSE None]]
    /\ UNCHANGED <<typo, pix, cfg, pool, out, clock, last, car, pex, par>>

mark_status_call(c) ==
    /\ Free(c)
    /\ \E h \in Hashes, fault \in DbFaults :
         db' = [db EXCEPT !.rows = mark_status(@, h, "published", fault),
                          !.cl[c] = [pc |-> "done", op |-> "mark_status",
                                     content_hash |-> h, check |-> fault,
                                     error |-> IF fault = "connect"
                                               THEN "EduFlowError" ELSE None]]
    /\ UNCHANGED <<typo, pix, cfg, pool, out, clock, last, car, pex, par>>

NextDb ==
    \E c \in Clients :
        \/ insert_call(c)
        \/ insert_write(c)
        \/ exists_by_hash_call(c)
        \/ mark_status_call(c)

SpecDb == InitDb /\ [][NextDb]_vars

\* Client c has finished the given repository call.
Finished(c, op) == db.cl[c].pc = "done" /\ db.cl[c].op = op

\* The rows holding a hash.
RowsOf(content_hash) ==
    {i \in 1..Len(db.rows) : db.rows[i].content_hash = content_hash}

Procs == {1, 2}

\* The size a background photo is cover-resized to.
PHOTO_COVER == cover_resize([w |-> 1920, h |-> 3000], POST_WIDTH, POST_HEIGHT, 0)

\* An output path of a caller's own.
OwnPath(p) == OutPath("exports", <<"own", <<p>>>>)

\* par.by holds, for every output file, the call whose canvas it contains.
InitPar ==
    /\ typo = Off /\ pix = Off /\ car = Off /\ pex = Off /\ db = Off
    /\ cfg \in {c \in Configs : c.logo /\ c.fonts = Weights /\ c.add_logo
                                  /\ c.template = "estacio_like"}
    /\ pool \in SUBSET {File(<<"photo">>, "png")}
    /\ out = {}
    /\ clock = 0
    /\ last = Off
    /\ par = [pool0 |-> pool, by |-> {},
              proc |-> [p \in Procs |-> [pc |-> "idle"]]]

At_(p, pc) == par.proc[p].pc = pc

Goto(p, pc, chosen) ==
    [par EXCEPT !.proc[p] = [@ EXCEPT !.pc = pc, !.chosen = chosen]]

\* create_post is called.  net and io_ok are what the network and the
\* encoder hold in store for this call.
par_call(p) ==
    /\ At_(p, "idle")
    /\ \E af \in BOOLEAN, own \in BOOLEAN, net \in NetOutcomes, io_ok \in BOOLEAN :
         par' = [par EXCEPT !.proc[p] =
                    [pc |-> "pick",
                     args |-> [title |-> <<"W">>, subtitle |-> NoText, kicker |-> NoText,
                               background_query |-> None, background_path |-> NoPath,
                               auto_fetch |-> af,
                               output_path |-> IF own THEN OwnPath(p) ELSE NoPath,
                               template |-> cfg.template, add_logo |-> cfg.add_logo],
                     net |-> net, io_ok |-> io_ok, chosen |-> NoPath, layers |-> <<>>,
                     canvas |-> NoPath, now |-> 0, returned |-> NoPath, error |-> None]]
    /\ UNCHANGED <<typo, pix, cfg, pool, out, clock, last, car, pex, db>>

\* _build_background, lines 326-335: no explicit path, so the pool as it is
\* now is listed and one of its images chosen.
par_pick(p) ==
    /\ At_(p, "pick")
    /\ \E pick \in Picks(pool) :
         LET chosen == pick_random_background(pool, pick)
         IN par' = Goto(p, IF chosen = NoPath /\ par.proc[p].args.auto_fetch
                           THEN "search" ELSE "render", chosen)
    /\ UNCHANGED <<typo, pix, cfg, pool, out, clock, last, car, pex, db>>

\* get_background_for_query, lines 49-78: the search, and the look into the
\* cache.
par_search(p) ==
    /\ At_(p, "search")
    /\ LET net == par.proc[p].net
       IN par' = IF ~cfg.api_key \/ net \in {"search_error", "no_photos"}
                 THEN Goto(p, "render", NoPath)
                 ELSE IF cache_path(1) \in pool THEN Goto(p, "render", cache_path(1))
                 ELSE IF net = "no_src" THEN Goto(p, "render", NoPath)
                 ELSE Goto(p, "download", NoPath)
    /\ UNCHANGED <<typo, pix, cfg, pool, out, clock, last, car, pex, db>>

\* _download_file, lines 178-184: the request, and open(tmp, "wb").
par_download_open(p) ==
    /\ At_(p, "download")
    /\ IF par.proc[p].net = "http_error"
       THEN par' = Goto(p, "render", NoPath) /\ pool' = pool
       ELSE /\ par' = Goto(p, "transfer", NoPath)
            /\ pool' = pool \cup {with_suffix(cache_path(1), "tmp")}
    /\ UNCHANGED <<typo, pix, cfg, out, clock, last, car, pex, db>>

\* _download_file, lines 185-188, and lines 82-86: the chunks are written and
\* tmp.replace(dest) renames the file; with the temporary file gone it raises
\* FileNotFoundError, which is not retried and which
\* get_background_for_query turns into None.
par_download_replace(p) ==
    /\ At_(p, "transfer")
    /\ LET tmp == with_suffix(cache_path(1), "tmp")
       IN IF par.proc[p].net = "broken_transfer" \/ tmp \notin pool
          THEN par' = Goto(p, "render", NoPath) /\ pool' = pool
          ELSE /\ par' = Goto(p, "render", cache_path(1))
               /\ pool' = (pool \ {tmp}) \cup {cache_path(1)}
    /\ UNCHANGED <<typo, pix, cfg, out, clock, last, car, pex, db>>

\* Lines 338-360 and 58-64: the background is composed and the layout drawn
\* on the call's own canvas.
par_render(p) ==
    /\ At_(p, "render")
    /\ LET me == par.proc[p]
           bg == compose_background(me.chosen, PHOTO_COVER)
       IN par' = [par EXCEPT !.proc[p] =
                     IF IsError(bg)
                     THEN [me EXCEPT !.pc = "done", !.error = bg.error]
                     ELSE [me EXCEPT !.pc = "save", !.canvas = bg.size,
                                     !.layers = render_estacio_like(bg.layers,
                                                                    me.args.add_logo, cfg)]]
    /\ UNCHANGED <<typo, pix, cfg, pool, out, clock, last, car, pex, db>>

\* Lines 66-69: the output path is resolved with the clock as it is now and
\* the canvas is written there.
par_save(p) ==
    /\ At_(p, "save")
    /\ LET me == par.proc[p]
           target == resolve_output_path(me.args.output_path, clock)
           saved == save_jpeg_high([size |-> me.canvas, layers |-> me.layers],
                                   target, out, me.io_ok)
       IN /\ out' = saved.out
          /\ par' = [par EXCEPT
                       !.by = IF saved.error # None THEN @
                              ELSE {f \in @ : f.path # target}
                                      \cup {[path |-> target, by |-> p]},
                       !.proc[p] = [me EXCEPT !.pc = "done", !.now = clock,
                                              !.error = saved.error,
                                              !.returned = IF saved.error = None
                                                           THEN target ELSE NoPath]]
    /\ UNCHANGED <<typo, pix, cfg, pool, clock, last, car, pex, db>>

par_tick ==
    /\ clock < MaxClock
    /\ clock' = clock + 1
    /\ UNCHANGED <<typo, pix, cfg, pool, out, last, car, pex, db, par>>

NextPar ==
    \/ \E p \in Procs :
          \/ par_call(p)
          \/ par_pick(p)
          \/ par_search(p)
          \/ par_download_open(p)
          \/ par_download_replace(p)
          \/ par_render(p)
          \/ par_save(p)
    \/ par_tick

SpecPar == InitPar /\ [][NextPar]_vars

\* What call p would have done alone: create_post on the file system as it
\* was before either call, at the same time, with the same answers of the
\* network and the encoder.
Alone(p) ==
    LET me == par.proc[p]
    IN create_post(me.args, cfg, par.pool0, {}, me.now,
                   pick_random_background(par.pool0, File(<<"photo">>, "png")),
                   me.net, PHOTO_COVER, me.io_ok)

\* C19: when both parallel calls have ended, each has obtained the
\* background, drawn the layers and returned the path it would have alone,
\* and the file at the path it returned holds its own canvas.
C19_OutcomeAsAlone ==
    (\A p \in Procs : At_(p, "done")) =>
        \A p \in Procs :
            /\ par.proc[p].chosen = Alone(p).chosen
            /\ par.proc[p].layers = Alone(p).layers
            /\ par.proc[p].error = Alone(p).error
            /\ par.proc[p].returned = Alone(p).returned
            /\ par.proc[p].returned # NoPath =>
                  [path |-> par.proc[p].returned, by |-> p] \in par.by

(***************************************************************************)
(* Claims on what variant B draws (Spec)                                   *)
(***************************************************************************)
\* A call that rendered variant B to the end.
MinimalDone == Done /\ last.error = None /\ last.args.template = "minimal"

\* The kinds of the layers drawn over the background, in order.
DrawnKinds ==
    LET over == SelectSeq(last.layers, NotBackground)
    IN [i \in 1..Len(over) |-> over[i].kind]

\* C21, as stated: variant B draws no header band, no glass panel, no CTA
\* line and no glow behind the logo; it draws only the logo (if enabled),
\* the handle, the kicker, the title and the subtitle.
C21_MinimalWithoutGlow ==
    MinimalDone =>
        /\ Kinds(last.layers) \cap {"header", "glass_card", "cta", "logo_glow"} = {}
        /\ Kinds(SelectSeq(last.layers, NotBackground))
              \subseteq {"logo", "logo_shadow", "handle", "kicker", "title", "subtitle"}

\* C21, amended: variant B draws no header band, no glass panel and no CTA
\* line; over the background it draws, in this order, the logo with the same
\* glow and shadow layers as variant A (when the logo is enabled and its file
\* exists), the handle, the kicker, the title and the subtitle.
C21_MinimalLayers ==
    MinimalDone =>
        DrawnKinds =
            (IF last.args.add_logo /\ cfg.logo
             THEN <<"logo_glow", "logo_shadow", "logo">> ELSE <<>>)
            \o <<"handle", "kicker", "title", "subtitle">>

\* Variant B rendered with the logo enabled and installed: the glow is drawn.
C21_Witness ==
    /\ MinimalDone /\ last.args.add_logo /\ cfg.logo
    /\ "logo_glow" \in Kinds(last.layers)
    /\ "header" \notin Kinds(last.layers)

(***************************************************************************)
(* Claims on the treatment of the background (Spec)                        *)
(***************************************************************************)
\* The background layers of the last call, bottom first.
BackgroundLayers == SelectSeq(last.layers, LAMBDA l : ~NotBackground(l))

\* The position of the first layer of a kind among the background layers.
BgPos(kind) ==
    CHOOSE i \in 1..Len(BackgroundLayers) : BackgroundLayers[i].kind = kind

\* The layers of the photo path over the photo: the black wash at alpha 85,
\* the gradient at alpha 70, the blob.
PhotoTreatment ==
    <<Layer("dark_wash", 85), Layer("gradient", 70), Layer("blob", 0)>>

GradientDone == Done /\ last.error = None /\ last.chosen = NoPath

\* C22, as stated: with no background image the gradient base gets the dark
\* wash of the photo path, at the same alpha, and gets it before the blob.
C22_SameWashAsPhoto ==
    GradientDone =>
        /\ BackgroundLayers[BgPos("dark_wash")] = PhotoTreatment[1]
        /\ BgPos("dark_wash") < BgPos("blob")

\* C22, amended: with no background image the base is the gradient at alpha
\* 255, then the blob, then a black wash at alpha 35: the same blob as the
\* photo path, but a lighter wash (35 against 85) composited after the blob
\* instead of before it.  The photo path is photo, blur, wash 85, gradient
\* 70, blob.
C22_GradientTreatment ==
    (Done /\ last.error = None) =>
        BackgroundLayers =
            IF last.chosen = NoPath
            THEN <<Layer("gradient", 255), Layer("blob", 0), Layer("dark_wash", 35)>>
            ELSE <<Layer("photo", 0), Layer("blur", 3)>> \o PhotoTreatment

\* A call that found no image, with auto_fetch set and the search failing.
C22_Witness ==
    /\ GradientDone /\ last.args.auto_fetch /\ last.calls = 1
    /\ BgPos("blob") < BgPos("dark_wash")
    /\ BackgroundLayers[BgPos("dark_wash")].arg = 35

(***************************************************************************)
(* SpecStack: the kicker, title and subtitle blocks of both variants       *)
(***************************************************************************)
\* font.getmetrics(): ascent and descent scale with the size of the Inter
\* files (about 0.97 and 0.24 of the size); the built-in font is small and
\* fixed.
getmetrics(font) ==
    IF font.builtin THEN [ascent |-> 9, descent |-> 2]
    ELSE [ascent |-> font.size, descent |-> font.size \div 4]

line_h(font) == getmetrics(font).ascent + getmetrics(font).descent

\* _measure_multiline_height
measure_multiline_height(lines, font, line_spacing) ==
    IF lines = <<>> THEN 0
    ELSE Len(lines) * line_h(font) + (Len(lines) - 1) * line_spacing

\* _draw_wrapped_text: the top and the bottom of every line drawn; cy starts
\* at y and grows by line_h + line_spacing per line.
draw_wrapped_text(text, font, y, max_width, line_spacing) ==
    LET lines == wrap_text(text, font, max_width)
    IN [i \in 1..Len(lines) |->
           [top |-> y + (i - 1) * (line_h(font) + line_spacing),
            bottom |-> y + (i - 1) * (line_h(font) + line_spacing) + line_h(font)]]

\* int(h * 0.45) and int(h * 0.62) for h = 1350.
CARD_Y == (POST_HEIGHT * 45) \div 100
KICKER_Y == (POST_HEIGHT * 62) \div 100

\* _render_estacio_like, lines 142-189: the title fitted from 68 down to 44
\* in the card's inner width, drawn at card_y + 68; the subtitle at
\* title_y + title_block_h + 14.
estacio_like_text(title, font_ok) ==
    LET inner_w == (POST_WIDTH - 2 * SAFE_MARGIN) - 72
        title_font == fit_font(font_ok, title, inner_w, 68, 44, 3)
        title_y == CARD_Y + 68
        title_lines == wrap_text(title, title_font, inner_w)
        title_block_h == measure_multiline_height(title_lines, title_font, 10)
    IN [title_font |-> title_font, title_y |-> title_y, max_lines |-> 3,
        title_rows |-> draw_wrapped_text(title, title_font, title_y, inner_w, 10),
        sub_y |-> title_y + title_block_h + 14]

\* _render_minimal, lines 218-224: the title fitted from 110 down to 64 in
\* the content width, drawn at kicker_y + 52; the subtitle at title_y + 180.
minimal_text(title, font_ok) ==
    LET content_w == POST_WIDTH - 2 * SAFE_MARGIN
        title_font == fit_font(font_ok, title, content_w, 110, 64, 3)
        title_y == KICKER_Y + 52
    IN [title_font |-> title_font, title_y |-> title_y, max_lines |-> 3,
        title_rows |-> draw_wrapped_text(title, title_font, title_y, content_w, 14),
        sub_y |-> title_y + 180]

\* n glyphs.
RECURSIVE Word(_)
Word(n) == IF n = 0 THEN <<>> ELSE <<"W">> \o Word(n - 1)

\* A title of k words of n glyphs each.
RECURSIVE Title(_, _)
Title(n, k) == IF k = 1 THEN Word(n) ELSE Word(n) \o <<" ">> \o Title(n, k - 1)

StackTitles == {Title(n, k) : n \in 1..MaxWordLen, k \in 1..MaxWords}

InitStack ==
    /\ typo \in [pc : {"copy"}, template : {"estacio_like", "minimal"},
                 font_ok : BOOLEAN, title : StackTitles]
    /\ pix = Off /\ cfg = Off /\ pool = {} /\ out = {} /\ clock = 0 /\ last = Off
    /\ car = Off /\ pex = Off /\ db = Off /\ par = Off

render_estacio_like_text ==
    /\ typo.pc = "copy" /\ typo.template # "minimal"
    /\ typo' = [typo EXCEPT !.pc = "stacked"]
                  @@ estacio_like_text(typo.title, typo.font_ok)
    /\ UNCHANGED <<pix, cfg, pool, out, clock, last, car, pex, db, par>>

render_minimal_text ==
    /\ typo.pc = "copy" /\ typo.template = "minimal"
    /\ typo' = [typo EXCEPT !.pc = "stacked"]
                  @@ minimal_text(typo.title, typo.font_ok)
    /\ UNCHANGED <<pix, cfg, pool, out, clock, last, car, pex, db, par>>

NextStack == render_estacio_like_text \/ render_minimal_text

SpecStack == InitStack /\ [][NextStack]_vars

Stacked == typo.pc = "stacked"

\* The bottom of the title block as drawn.
TitleBottom == typo.title_rows[Len(typo.title_rows)].bottom

\* C23: in both variants the subtitle's top is at or below the bottom of the
\* title block as drawn, for every title, wrapped up to the ceiling of 3
\* lines or beyond it in the overflow-accepted case.
C23_SubtitleBelowTitle ==
    Stacked => typo.sub_y >= TitleBottom

(***************************************************************************)
(* SpecFonts: settings._find_font_file over every set of installed files   *)
(***************************************************************************)
FontWeights == {"regular", "medium", "semibold", "extrabold"}

\* Inter-Regular.ttf, Inter-Medium.ttf, Inter-SemiBold.ttf, Inter-ExtraBold.ttf
StaticName(weight) == <<"Inter", weight>>

FontPath(dir, name) == [dir |-> dir, name |-> name]

\* Lines 76-85: the (key, path) candidates, in order.
StaticCandidates ==
    <<[key |-> "regular", path |-> FontPath("Inter/static", StaticName("regular"))],
      [key |-> "medium", path |-> FontPath("Inter/static", StaticName("medium"))],
      [key |-> "semibold", path |-> FontPath("Inter/static", StaticName("semibold"))],
      [key |-> "extrabold", path |-> FontPath("Inter/static", StaticName("extrabold"))],
      [key |-> "regular", path |-> FontPath("static", StaticName("regular"))],
      [key |-> "medium", path |-> FontPath("static", StaticName("medium"))],
      [key |-> "semibold", path |-> FontPath("static", StaticName("semibold"))],
      [key |-> "extrabold", path |-> FontPath("static", StaticName("extrabold"))]>>

\* Lines 92-97: the variable-weight files, in order.
VariableCandidates ==
    <<FontPath("Inter", <<"Inter-VariableFont", "opsz,wght">>),
      FontPath("", <<"Inter-VariableFont", "opsz,wght">>),
      FontPath("Inter", <<"Inter-VariableFont", "slnt,wght">>),
      FontPath("", <<"Inter-VariableFont", "slnt,wght">>)>>

\* Lines 106-109: the path of last resort, FONTS_DIR / Inter-<Weight>.ttf.
DefaultFont(weight) == FontPath("", StaticName(weight))

\* dict.setdefault
setdefault(d, key, value) == IF key \in DOMAIN d THEN d ELSE d @@ (key :> value)

\* Lines 87-90: the loop over the candidates; `resolved` is the dict so far.
RECURSIVE ResolveStatic(_, _, _)
ResolveStatic(cands, existing, resolved) ==
    IF cands = <<>> THEN resolved
    ELSE ResolveStatic(Tail(cands), existing,
                       IF Head(cands).key \notin DOMAIN resolved
                          /\ Head(cands).path \in existing
                       THEN resolved @@ (Head(cands).key :> Head(cands).path)
                       ELSE resolved)

\* next((p for p in variable if p.exists()), None)
RECURSIVE FirstExisting(_, _)
FirstExisting(paths, existing) ==
    IF paths = <<>> THEN NoPath
    ELSE IF Head(paths) \in existing THEN Head(paths)
    ELSE FirstExisting(Tail(paths), existing)

\* The four setdefault calls of lines 101-104, or of lines 106-109.
SetDefaults(resolved, path_of) ==
    setdefault(setdefault(setdefault(setdefault(resolved,
        "regular", path_of["regular"]),
        "medium", path_of["medium"]),
        "semibold", path_of["semibold"]),
        "extrabold", path_of["extrabold"])

\* The slip of letting the variable-weight file win over the static files.
FindFontFileVariableFirst(existing) ==
    LET var_path == FirstExisting(VariableCandidates, existing)
        first == IF var_path # NoPath
                 THEN SetDefaults(<<>>, [k \in FontWeights |-> var_path]) ELSE <<>>
        resolved == ResolveStatic(StaticCandidates, existing, first)
    IN SetDefaults(resolved, [k \in FontWeights |-> DefaultFont(k)])

\* _find_font_file
find_font_file(existing) ==
    LET resolved == ResolveStatic(StaticCandidates, existing, <<>>)
        var_path == FirstExisting(VariableCandidates, existing)
        with_var == IF var_path # NoPath
                    THEN SetDefaults(resolved, [k \in FontWeights |-> var_path]) ELSE resolved
    IN SetDefaults(with_var, [k \in FontWeights |-> DefaultFont(k)])

\* The font files that may be installed.
FontFiles ==
    {StaticCandidates[i].path : i \in 1..Len(StaticCandidates)}
       \cup {VariableCandidates[i] : i \in 1..Len(VariableCandidates)}

InitFonts ==
    /\ cfg \in [pc : {"files"}, existing : SUBSET FontFiles]
    /\ typo = Off /\ pix = Off /\ pool = {} /\ out = {} /\ clock = 0 /\ last = Off
    /\ car = Off /\ pex = Off /\ db = Off /\ par = Off

\* _FONT = _find_font_file(), when settings is imported.
find_font_file_call ==
    /\ cfg.pc = "files"
    /\ cfg' = [pc |-> "resolved", existing |-> cfg.existing,
               FONT |-> find_font_file(cfg.existing)]
    /\ UNCHANGED <<typo, pix, pool, out, clock, last, car, pex, db, par>>

NextFonts == find_font_file_call

SpecFonts == InitFonts /\ [][NextFonts]_vars

\* The ordered candidate list of a weight: its two static files, then the
\* variable-weight files.
CandidateList(weight) ==
    <<FontPath("Inter/static", StaticName(weight)), FontPath("static", StaticName(weight))>>
       \o VariableCandidates

\* C24: each of the four weights resolves to the first existing path of its
\* ordered candidate list (its static files, then the shared variable-weight
\* file), and to the weight's default path when none exists; all four always
\* resolve.
C24_FirstExistingWins ==
    cfg.pc = "resolved" =>
        /\ DOMAIN cfg.FONT = FontWeights
        /\ \A weight \in FontWeights :
              LET list == CandidateList(weight)
                  found == {i \in 1..Len(list) : list[i] \in cfg.existing}
              IN cfg.FONT[weight] =
                    IF found = {} THEN DefaultFont(weight)
                    ELSE list[CHOOSE i \in found : \A j \in found : i <= j]

\* One weight on its second static file, one on the second variable-weight
\* file although a later one exists too, with no static file for it.
C24_Witness ==
    /\ cfg.pc = "resolved"
    /\ cfg.FONT["regular"] = FontPath("static", StaticName("regular"))
    /\ cfg.FONT["medium"] = VariableCandidates[2]
    /\ VariableCandidates[3] \in cfg.existing
    /\ VariableCandidates[1] \notin cfg.existing

(***************************************************************************)
(* SpecSearch: _fit_font over longer runs of candidate sizes               *)
(***************************************************************************)
InitSearch ==
    /\ typo \in [pc : {"input"}, font_ok : BOOLEAN, text : Texts,
                 max_width : 1..MaxSearchWidth, start_size : 1..MaxSearchSize,
                 min_size : 1..2, max_lines : 1..MaxLinesCeil,
                 font : {None}, lines : {<<>>}]
    /\ pix = Off /\ cfg = Off /\ pool = {} /\ out = {} /\ clock = 0 /\ last = Off
    /\ car = Off /\ pex = Off /\ db = Off /\ par = Off

NextSearch == fit_font_call

SpecSearch == InitSearch /\ [][NextSearch]_vars

\* The candidates in rising order: the i-th is CandidateAt(i), of
\* NumCandidates.
NumCandidates ==
    IF typo.start_size < typo.min_size THEN 0
    ELSE (typo.start_size - typo.min_size) \div 2 + 1

CandidateAt(i) == typo.start_size - 2 * (NumCandidates - i)

\* A binary search for the largest fitting candidate among lo..hi; `best` is
\* the largest candidate found to fit so far, 0 for none.
RECURSIVE Bisect(_, _, _)
Bisect(lo, hi, best) ==
    IF lo > hi THEN best
    ELSE LET mid == (lo + hi) \div 2
         IN IF WrapFitsAt(CandidateAt(mid))
            THEN Bisect(mid + 1, hi, mid)
            ELSE Bisect(lo, mid - 1, best)

\* The size the binary search returns, min_size when no candidate fits.
BinarySearchSize ==
    LET best == Bisect(1, NumCandidates, 0)
    IN IF best = 0 THEN typo.min_size ELSE CandidateAt(best)

\* C25: the fit is monotone in the size (a wrap that fits at a candidate fits
\* at every smaller candidate), and a binary search over the candidates
\* returns the size _fit_font returns, min_size in the overflow-accepted case
\* included.
C25_BinarySearchAgrees ==
    Fitted =>
        /\ \A s, t \in Candidates : (s < t /\ WrapFitsAt(t)) => WrapFitsAt(s)
        /\ typo.font.size = BinarySearchSize

\* A search over four candidates or more whose answer lies strictly inside:
\* the largest does not fit, the one returned is not the smallest.
C25_Witness ==
    /\ Fitted /\ ~typo.font.builtin
    /\ NumCandidates >= 4
    /\ ~WrapFitsAt(typo.start_size)
    /\ WrapFitsAt(typo.font.size)
    /\ typo.font.size > CandidateAt(1)
    /\ typo.font.size = BinarySearchSize

(***************************************************************************)
(* Claims on the default output path (Spec)                                *)
(***************************************************************************)
\* C26: a successful call without an explicit output path returns a path no
\* earlier call has written, so no render overwrites an earlier render's
\* file.
C26_DefaultPathsDiffer ==
    (Done /\ last.error = None /\ last.args.output_path = NoPath) =>
        last.returned \notin last.pre_out

(***************************************************************************)
(* Claims on the download directory as the pool (Spec)                     *)
(***************************************************************************)
\* The call began with a downloaded file in the pool.
DownloadStored == cache_path(1) \in last.pre_pool

\* C27: once a downloaded file is stored, every later call without an
\* existing explicit path takes its background from the pool and makes no
\* call of the remote collaborator, whatever auto_fetch and the query are;
\* the downloaded file stays in the pool.
C27_PoolShadowsRemote ==
    /\ (Done /\ DownloadStored) => cache_path(1) \in pool
    /\ (Done /\ DownloadStored /\ ~ExplicitExists) =>
          /\ last.calls = 0
          /\ last.chosen \in pool_images(last.pre_pool)
          /\ last.stages = (IF Explicit THEN <<"explicit">> ELSE <<>>) \o <<"pool", "photo">>

\* A call with auto_fetch set and an API key, on a pool that holds nothing
\* but an earlier download.
C27_Witness ==
    /\ Done /\ last.pre_pool = {cache_path(1)}
    /\ last.args.auto_fetch /\ cfg.api_key /\ ~Explicit
    /\ last.calls = 0 /\ last.chosen = cache_path(1)

(***************************************************************************)
(* SpecDownload: _download_file, chunk by chunk                            *)
(***************************************************************************)
\* The slip of streaming the body straight into the destination.
DownloadTargetInPlace(dest) == dest

\* Line 183: the file the body is streamed to.
download_target(dest) == with_suffix(dest, "tmp")

\* The directory holds nothing, a photo put there by hand, or the temporary
\* file an earlier broken transfer left behind; pex.partial is the set of
\* files whose content is not a complete image.
InitDownload ==
    /\ typo = Off /\ pix = Off /\ last = Off /\ car = Off /\ db = Off /\ par = Off
    /\ cfg = Off /\ out = {} /\ clock = 0
    /\ pool \in SUBSET {File(<<"photo">>, "png"), with_suffix(cache_path(1), "tmp")}
    /\ pex = PexIdle @@ [partial |-> pool \cap {with_suffix(cache_path(1), "tmp")},
                         chunks |-> 0]

\* Line 81 reached: the photo is not in the cache.
download_file_call ==
    /\ pex.pc = "idle"
    /\ pex' = [pex EXCEPT !.pc = "request", !.attempt = 1]
    /\ UNCHANGED <<typo, pix, cfg, pool, out, clock, last, car, db, par>>

\* A failed attempt: slept and started again, or given up.
DownloadAfterFailure(p, o) ==
    [AfterFailure(p, o) EXCEPT !.pc = IF @ = "returned" THEN @ ELSE "request",
                               !.chunks = 0]

\* Lines 178-184 of one attempt: the request, the status check and
\* open(tmp, "wb"), which creates the file or empties it.
download_request ==
    /\ pex.pc = "request"
    /\ \E o \in {"saved", "timeout", "rate_limit", "http_4xx", "http_5xx"} :
          LET p == [pex EXCEPT !.downloads = @ + 1]
              tmp == download_target(cache_path(1))
          IN IF o = "saved"
             THEN /\ pex' = [p EXCEPT !.pc = "transfer", !.partial = @ \cup {tmp}]
                  /\ pool' = pool \cup {tmp}
             ELSE /\ pex' = DownloadAfterFailure(p, o)
                  /\ pool' = pool
    /\ UNCHANGED <<typo, pix, cfg, out, clock, last, car, db, par>>

\* Lines 185-187: one chunk is written, or the connection breaks; after the
\* last chunk the file is closed, complete.
download_chunk ==
    /\ pex.pc = "transfer"
    /\ \E o \in {"chunk", "last_chunk", "broken_transfer"} :
          LET tmp == download_target(cache_path(1))
          IN pex' = IF o = "broken_transfer" THEN DownloadAfterFailure(pex, o)
                    ELSE IF o = "last_chunk" \/ pex.chunks + 1 = MaxChunks
                    THEN [pex EXCEPT !.pc = "replace", !.chunks = @ + 1,
                                     !.partial = @ \ {tmp}]
                    ELSE [pex EXCEPT !.chunks = @ + 1]
    /\ UNCHANGED <<typo, pix, cfg, pool, out, clock, last, car, db, par>>

\* Line 188: tmp.replace(dest), one rename.
download_replace ==
    /\ pex.pc = "replace"
    /\ LET tmp == download_target(cache_path(1))
       IN /\ pool' = (pool \ {tmp}) \cup {cache_path(1)}
          /\ pex' = Returned(pex, cache_path(1))
    /\ UNCHANGED <<typo, pix, cfg, out, clock, last, car, db, par>>

NextDownload ==
    \/ download_file_call
    \/ download_request
    \/ download_chunk
    \/ download_replace

SpecDownload == InitDownload /\ [][NextDownload]_vars

\* The files pick_random_background can select or get_background_for_query
\* can return as a cache hit.
Selectable == pool_images(pool) \cup (pool \cap {cache_path(1)})

\* C28: at every point of _download_file, a failure in mid-transfer and the
\* retries after it included, no file that pick_random_background can select
\* or that a cache hit can return holds partial content; the destination
\* appears only with the complete body.
C28_NoPartialFileVisible ==
    /\ Selectable \cap pex.partial = {}
    /\ cache_path(1) \in pool => (pex.pc = "returned" /\ pex.result = cache_path(1))

\* A retry in mid-transfer after a broken transfer: the temporary file holds
\* part of the body and is in the directory.
C28_Witness ==
    /\ pex.pc = "transfer" /\ pex.attempt = 2 /\ pex.chunks = 1
    /\ pex.fails = <<"broken_transfer">>
    /\ with_suffix(cache_path(1), "tmp") \in pool \cap pex.partial

(***************************************************************************)
(* Claims on concurrent inserts (SpecDb)                                   *)
(***************************************************************************)
\* Both clients have finished an insert of the same hash, and the two calls
\* raced: the lookup of each answered that the hash was not stored, and each
\* went on to its INSERT.
RacedInserts ==
    /\ \A c \in Clients :
          /\ Finished(c, "insert")
          /\ db.cl[c].check = "none" /\ ~db.cl[c].stored /\ db.cl[c].write # None
    /\ db.cl[1].content_hash = db.cl[2].content_hash

\* The clients whose insert returned an id.
Winners == {c \in Clients : db.cl[c].error = None}

Tag == last.args.template

\* The layers of variant A, or of variant B, over the background drawn.
VariantA == last.layers = render_estacio_like(BackgroundLayers, last.args.add_logo, cfg)

VariantB == last.layers = render_minimal(BackgroundLayers, last.args.add_logo, cfg)

\* C30: create_post renders variant B exactly when the tag is "minimal" and
\* variant A for every other tag, known or not; no tag makes it raise: a call
\* fails only before the render (the background) or after it (the encoder);
\* a carousel slide without a "template" key is rendered with
\* template_default, a slide with the key with its own tag.
C30_VariantByTag ==
    /\ (car.pc \in {"running", "returned", "raised"} /\ car.key # None) =>
          /\ Done
          /\ car.key = "absent" => Tag = cfg.template
          /\ car.key # "absent" => Tag = car.key
    /\ (Done /\ last.layers # <<>>) =>
          /\ Tag = "minimal" => (VariantB /\ ~VariantA)
          /\ Tag # "minimal" => (VariantA /\ ~VariantB)
          /\ last.error # None => ~last.io_ok
    /\ (Done /\ last.error = None) => last.layers # <<>>

\* A carousel whose second slide has no "template" key, rendered with the
\* unknown default tag "promo" as variant A, and returned.
C30_Witness ==
    /\ car.pc = "returned" /\ car.n = 2
    /\ car.key = "absent" /\ cfg.template = "promo"
    /\ Tag = "promo" /\ VariantA /\ last.error = None

====
